---- MODULE Spec2Model ----
(***************************************************************************)
(* A model of the book endpoints of src/app/api/v1/books.py: the handlers, *)
(* the generic CRUD accessor they delegate to (crud_books / crud_users),   *)
(* the book table with its uniqueness constraint and soft-delete columns,  *)
(* and the cache-aside decorator that wraps the handlers.                  *)
(*                                                                         *)
(* Optional values (Python None) are modelled as sequences of length <= 1: *)
(* None is << >> and a present value v is <<v>>.                           *)
(***************************************************************************)
EXTENDS Integers, Sequences, FiniteSets, TLC

VARIABLES
    books,      \* the book table: id -> row, for the rows in storage
    next_id,    \* the autoincrement counter of book.id
    now,        \* the database clock (datetime.now(UTC)), a logical time
    cache,      \* the cache store: key -> [payload, expiration]
    client,     \* whether the cache client is present ("up") or missing
    inflight,   \* per worker slot, the write request suspended before its write
    resp,       \* the last event: a completed request and its response
    tiers,      \* the tier table: id -> row
    rate_limits, \* the rate limit table: id -> row
    users,      \* the user table the direct calls of crud_users write
    seq,        \* the autoincrement counters of tier.id, rate_limit.id, user.id
    db_call,    \* the last direct call of a CRUD accessor and its outcome
    importer,   \* the run of scripts/import_pdfs.py: its arguments and its PDFImporter
    fetch,      \* a call of PDFImporter.get_books_in_db, request by request
    runner      \* the run of tests_db/run_tests_with_cleanup.py

dbvars == <<tiers, rate_limits, users, seq, db_call>>
scriptvars == <<importer, fetch, runner>>
vars == <<books, next_id, now, cache, client, inflight, resp, tiers, rate_limits, users,
         seq, db_call, importer, fetch, runner>>

----------------------------------------------------------------------------
(* Bounds of the model *)

MaxBooks == 2       \* book rows ever inserted
MaxTime == 3        \* successful writes (each advances the clock)
MaxCache == 1       \* entries held by the cache store at one time
MaxInflight == 2    \* concurrently suspended write requests

----------------------------------------------------------------------------
(* Optional values *)

None == << >>
Some(v) == <<v>>
Val(o) == o[1]

----------------------------------------------------------------------------
(* Users.  The book handlers only read the user table, so it is fixed:     *)
(* two live users (bob a superuser) and one soft-deleted user, carol, who  *)
(* no query with is_deleted=False finds.                                   *)

UserTable ==
    { [id |-> 1, username |-> "alice", is_superuser |-> FALSE, is_deleted |-> FALSE],
      [id |-> 2, username |-> "bob",   is_superuser |-> TRUE,  is_deleted |-> FALSE],
      [id |-> 3, username |-> "carol", is_superuser |-> FALSE, is_deleted |-> TRUE] }

Usernames == {"alice", "bob", "carol"}

\* crud_users.get(db, username=username, is_deleted=False)
crud_users_get(username) ==
    LET m == {u \in UserTable : u.username = username /\ ~u.is_deleted}
    IN  IF m = {} THEN None ELSE Some(CHOOSE u \in m : TRUE)

\* Depends(get_current_user): the authenticated caller, None without a
\* valid token.  Only live users hold valid tokens.
CurrentUsers == {None} \cup {Some(u) : u \in {x \in UserTable : ~x.is_deleted}}

----------------------------------------------------------------------------
(* Request inputs *)

ISBN1 == "0000000001"

\* BookCreate bodies (title stands for the non-unique descriptive columns)
BookCreates ==
    { [title |-> "A", isbn |-> None],
      [title |-> "A", isbn |-> Some(ISBN1)] }

\* BookUpdate bodies: a function from the fields that were set to values
BookUpdates ==
    { [f \in {"title"} |-> "B"],
      [f \in {"isbn"} |-> Some(ISBN1)] }

\* Request bodies as they arrive: the bodies above and one that the schema
\* rejects (title has min_length=1)
InvalidBookCreate == [title |-> "", isbn |-> None]
InvalidBookUpdate == [f \in {"title"} |-> ""]
\* a body with a field that BookUpdate does not declare (extra="forbid")
ExtraFieldBookUpdate == [f \in {"created_by_user_id"} |-> 2]
\* the fields of BookUpdate (title stands for the descriptive ones)
BookUpdateFields == {"title", "isbn"}
BookCreateBodies == BookCreates \cup {InvalidBookCreate}
BookUpdateBodies == BookUpdates \cup {InvalidBookUpdate, ExtraFieldBookUpdate}
ValidBookCreate(book) == Len(book.title) >= 1
\* Mutant: BookUpdate accepting fields it does not declare
ValidBookUpdate_extra_allowed(values) ==
    ("title" \in DOMAIN values) => Len(values["title"]) >= 1

ValidBookUpdate(values) ==
    /\ DOMAIN values \subseteq BookUpdateFields
    /\ ("title" \in DOMAIN values) => Len(values["title"]) >= 1

BookIds == 1..MaxBooks
Pages == {1, 2}
PageSizes == {1, 10}

\* page: int = 1, items_per_page: int = 10: a query parameter that is not
\* given (None) takes the default of the handler's signature
page_default == 1
items_per_page_default == 10
PageParams == {None} \cup {Some(p) : p \in Pages}
PageSizeParams == {None} \cup {Some(n) : n \in PageSizes}
Default(param, d) == IF param = None THEN d ELSE Val(param)

----------------------------------------------------------------------------
(* The book table and the generic CRUD accessor crud_books = FastCRUD(Book) *)

Rows(bs) == {bs[i] : i \in DOMAIN bs}

\* Keyword filters of a CRUD call; None stands for a filter that is not given
Matches(r, id, owner, deleted) ==
    /\ (id # None => r.id = Val(id))
    /\ (owner # None => r.created_by_user_id = Val(owner))
    /\ (deleted # None => r.is_deleted = Val(deleted))

Matching(bs, id, owner, deleted) == {r \in Rows(bs) : Matches(r, id, owner, deleted)}

RECURSIVE OrderById(_)
OrderById(S) ==
    IF S = {} THEN << >>
    ELSE LET r == CHOOSE x \in S : \A y \in S : x.id <= y.id
         IN  <<r>> \o OrderById(S \ {r})

\* crud_books.get(db, id=..., created_by_user_id=..., is_deleted=...)
crud_books_get(bs, id, owner, deleted) ==
    LET m == OrderById(Matching(bs, id, owner, deleted))
    IN  IF m = << >> THEN None ELSE Some(m[1])

\* crud_books.exists(db, isbn=isbn, is_deleted=False)
crud_books_exists(bs, isbn, deleted) ==
    \E r \in Rows(bs) : r.isbn = Some(isbn) /\ r.is_deleted = deleted

\* The unique index on book.isbn: it covers every stored row, soft-deleted
\* ones included, and treats NULLs as distinct
\* Mutant: a unique index that skips the soft-deleted rows
IsbnTaken_live_only(bs, isbn, except) ==
    isbn # None /\ \E r \in Rows(bs) : r.id # except /\ r.isbn = isbn /\ ~r.is_deleted

IsbnTaken(bs, isbn, except) ==
    isbn # None /\ \E r \in Rows(bs) : r.id # except /\ r.isbn = isbn

\* The Book row a create inserts: column defaults of the model
NewRow(id, t, obj) ==
    [id |-> id, title |-> obj.title, isbn |-> obj.isbn,
     created_by_user_id |-> obj.created_by_user_id,
     created_at |-> t, updated_at |-> None, deleted_at |-> None,
     is_deleted |-> FALSE]

\* crud_books.create(db, object=book_internal)
crud_books_create(bs, nid, t, obj) ==
    IF IsbnTaken(bs, obj.isbn, 0)
    THEN [error |-> "IntegrityError", books |-> bs, row |-> None]
    ELSE LET row == NewRow(nid, t, obj)
         IN  [error |-> "", books |-> (nid :> row) @@ bs, row |-> Some(row)]

\* One row after a partial update: only the fields that were set change
ApplyUpdate(r, t, values) ==
    [f \in DOMAIN r |->
        IF f \in DOMAIN values THEN values[f]
        ELSE IF f = "updated_at" THEN Some(t)
        ELSE r[f]]

\* crud_books.update(db, object=values, id=id, created_by_user_id=user_id)
crud_books_update(bs, t, values, id, owner) ==
    LET m == Matching(bs, Some(id), owner, None)
    IN  IF m = {} THEN [error |-> "NoResultFound", books |-> bs]
        ELSE IF "isbn" \in DOMAIN values /\ IsbnTaken(bs, values["isbn"], id)
        THEN [error |-> "IntegrityError", books |-> bs]
        ELSE [error |-> "", books |-> [bs EXCEPT ![id] = ApplyUpdate(@, t, values)]]
\* Mutant: a soft delete that sets the flag and leaves deleted_at null
MarkDeleted_flag_only(r, t) == [r EXCEPT !.is_deleted = TRUE]

\* The row after a soft delete
MarkDeleted(r, t) == [r EXCEPT !.is_deleted = TRUE, !.deleted_at = Some(t)]

\* Mutant: a book delete that removes the row
crud_books_delete_hard(bs, t, id, owner) ==
    LET m == Matching(bs, Some(id), owner, None)
    IN  IF m = {} THEN [error |-> "NoResultFound", books |-> bs]
        ELSE [error |-> "", books |-> [i \in (DOMAIN bs) \ {id} |-> bs[i]]]

\* crud_books.delete(db, id=id, created_by_user_id=user_id): a soft delete,
\* since Book has the is_deleted column
crud_books_delete(bs, t, id, owner) ==
    LET m == Matching(bs, Some(id), owner, None)
    IN  IF m = {} THEN [error |-> "NoResultFound", books |-> bs]
        ELSE [error |-> "", books |-> [bs EXCEPT ![id] = MarkDeleted(@, t)]]

\* crud_books.db_delete(db, id=id, created_by_user_id=user_id): removes the row
crud_books_db_delete(bs, id, owner) ==
    LET keep == {i \in DOMAIN bs : ~Matches(bs[i], Some(id), owner, None)}
    IN  [error |-> "", books |-> [i \in keep |-> bs[i]]]

\* Mutant: an offset that skips the first page
compute_offset_from_page(page, items_per_page) == page * items_per_page

\* fastcrud.paginated.compute_offset
compute_offset(page, items_per_page) == (page - 1) * items_per_page

Min(a, b) == IF a <= b THEN a ELSE b

\* crud_books.get_multi(db, offset=..., limit=..., **filters)
crud_books_get_multi(bs, offset, limit, owner, deleted) ==
    LET all == OrderById(Matching(bs, None, owner, deleted))
    IN  [data |-> SubSeq(all, offset + 1, Min(offset + limit, Len(all))),
         total_count |-> Len(all)]

\* fastcrud.paginated.paginated_response
paginated_response(crud_data, page, items_per_page) ==
    [data |-> crud_data.data,
     total_count |-> crud_data.total_count,
     has_more |-> page * items_per_page < crud_data.total_count,
     page |-> page,
     items_per_page |-> items_per_page]

\* schema_to_select=BookRead: the columns of the BookRead schema
BookRead(r) ==
    [id |-> r.id, title |-> r.title, isbn |-> r.isbn,
     created_by_user_id |-> r.created_by_user_id, created_at |-> r.created_at]

----------------------------------------------------------------------------
(* The route handlers of src/app/api/v1/books.py.  Each is a function of   *)
(* the table (and, for a write, the next id and the clock) and yields the  *)
(* HTTP status, the body and the table afterwards.  An exception that no   *)
(* handler catches leaves the table as it was and surfaces as a 500.       *)

Result(status, body, bs) == [status |-> status, body |-> body, books |-> bs]
Raise(status, detail, bs) == Result(status, [detail |-> detail], bs)
Unhandled(error, bs) == Result(500, [detail |-> error], bs)
\* Mutant: the public list without the is_deleted=False filter
read_all_books_unfiltered(bs, page, items_per_page) ==
    LET books_data == crud_books_get_multi(
            bs, compute_offset(page, items_per_page), items_per_page, None, None)
    IN  Result(200, paginated_response(books_data, page, items_per_page), bs)


read_all_books(bs, page, items_per_page) ==
    LET books_data == crud_books_get_multi(
            bs, compute_offset(page, items_per_page), items_per_page, None, Some(FALSE))
    IN  Result(200, paginated_response(books_data, page, items_per_page), bs)
\* Mutant: write_book without the ISBN pre-check
write_book_checks_no_isbn(bs, username, book, current_user) ==
    LET db_user == crud_users_get(username)
        user_id == Val(db_user).id
    IN  IF db_user = None THEN Some(Raise(404, "User not found", bs))
        ELSE IF Val(current_user).id # user_id THEN Some(Raise(403, "Forbidden", bs))
        ELSE None

\* write_book up to the await of crud_books.create: None when every check
\* passes, else the response of the check that raised
write_book_checks(bs, username, book, current_user) ==
    LET db_user == crud_users_get(username)
        user_id == Val(db_user).id
    IN  IF db_user = None THEN Some(Raise(404, "User not found", bs))
        ELSE IF Val(current_user).id # user_id THEN Some(Raise(403, "Forbidden", bs))
        ELSE IF book.isbn # None /\ crud_books_exists(bs, Val(book.isbn), FALSE)
        THEN Some(Raise(409, "Book with this ISBN already exists", bs))
        ELSE None

\* write_book from crud_books.create on; no exception of the create is caught
write_book_create(bs, nid, t, username, book) ==
    LET user_id == Val(crud_users_get(username)).id
        created == crud_books_create(bs, nid, t,
            [title |-> book.title, isbn |-> book.isbn, created_by_user_id |-> user_id])
    IN  IF created.error # "" THEN Unhandled(created.error, bs)
        ELSE Result(201, BookRead(Val(created.row)), created.books)

write_book(bs, nid, t, username, book, current_user) ==
    LET failed == write_book_checks(bs, username, book, current_user)
    IN  IF failed # None THEN Val(failed)
        ELSE write_book_create(bs, nid, t, username, book)

read_books(bs, username, page, items_per_page) ==
    LET db_user == crud_users_get(username)
        user_id == Val(db_user).id
        books_data == crud_books_get_multi(
            bs, compute_offset(page, items_per_page), items_per_page,
            Some(user_id), Some(FALSE))
    IN  IF db_user = None THEN Raise(404, "User not found", bs)
        ELSE Result(200, paginated_response(books_data, page, items_per_page), bs)

\* Mutant: the owner-path read without the created_by_user_id filter
read_book_any_owner(bs, username, id) ==
    LET db_user == crud_users_get(username)
        db_book == crud_books_get(bs, Some(id), None, Some(FALSE))
    IN  IF db_user = None THEN Raise(404, "User not found", bs)
        ELSE IF db_book = None THEN Raise(404, "Book not found", bs)
        ELSE Result(200, BookRead(Val(db_book)), bs)

read_book(bs, username, id) ==
    LET db_user == crud_users_get(username)
        user_id == Val(db_user).id
        db_book == crud_books_get(bs, Some(id), Some(user_id), Some(FALSE))
    IN  IF db_user = None THEN Raise(404, "User not found", bs)
        ELSE IF db_book = None THEN Raise(404, "Book not found", bs)
        ELSE Result(200, BookRead(Val(db_book)), bs)

\* values.isbn: None when the field was not set
ValuesIsbn(values) == IF "isbn" \in DOMAIN values THEN values["isbn"] ELSE None

\* Mutant: patch_book looking the book up before it compares the caller
\* with the owner
patch_book_checks_book_first(bs, username, id, values, current_user) ==
    LET db_user == crud_users_get(username)
        user_id == Val(db_user).id
        db_book == crud_books_get(bs, Some(id), Some(user_id), Some(FALSE))
        isbn == ValuesIsbn(values)
    IN  IF db_user = None THEN Some(Raise(404, "User not found", bs))
        ELSE IF db_book = None THEN Some(Raise(404, "Book not found", bs))
        ELSE IF Val(current_user).id # user_id THEN Some(Raise(403, "Forbidden", bs))
        ELSE IF /\ isbn # None
                /\ isbn # Val(db_book).isbn
                /\ crud_books_exists(bs, Val(isbn), FALSE)
        THEN Some(Raise(409, "Book with this ISBN already exists", bs))
        ELSE None

\* Mutant: patch_book with the duplicate check applied to the book's own ISBN
patch_book_checks_own_isbn(bs, username, id, values, current_user) ==
    LET db_user == crud_users_get(username)
        user_id == Val(db_user).id
        db_book == crud_books_get(bs, Some(id), Some(user_id), Some(FALSE))
        isbn == ValuesIsbn(values)
    IN  IF db_user = None THEN Some(Raise(404, "User not found", bs))
        ELSE IF Val(current_user).id # user_id THEN Some(Raise(403, "Forbidden", bs))
        ELSE IF db_book = None THEN Some(Raise(404, "Book not found", bs))
        ELSE IF isbn # None /\ crud_books_exists(bs, Val(isbn), FALSE)
        THEN Some(Raise(409, "Book with this ISBN already exists", bs))
        ELSE None

\* patch_book up to the await of crud_books.update
patch_book_checks(bs, username, id, values, current_user) ==
    LET db_user == crud_users_get(username)
        user_id == Val(db_user).id
        db_book == crud_books_get(bs, Some(id), Some(user_id), Some(FALSE))
        isbn == ValuesIsbn(values)
    IN  IF db_user = None THEN Some(Raise(404, "User not found", bs))
        ELSE IF Val(current_user).id # user_id THEN Some(Raise(403, "Forbidden", bs))
        ELSE IF db_book = None THEN Some(Raise(404, "Book not found", bs))
        ELSE IF /\ isbn # None
                /\ isbn # Val(db_book).isbn
                /\ crud_books_exists(bs, Val(isbn), FALSE)
        THEN Some(Raise(409, "Book with this ISBN already exists", bs))
        ELSE None

\* patch_book from crud_books.update on; no exception of the update is caught
patch_book_update(bs, t, username, id, values) ==
    LET user_id == Val(crud_users_get(username)).id
        updated == crud_books_update(bs, t, values, id, Some(user_id))
    IN  IF updated.error # "" THEN Unhandled(updated.error, bs)
        ELSE Result(200, [message |-> "Book updated successfully"], updated.books)

patch_book(bs, t, username, id, values, current_user) ==
    LET failed == patch_book_checks(bs, username, id, values, current_user)
    IN  IF failed # None THEN Val(failed)
        ELSE patch_book_update(bs, t, username, id, values)
\* Mutant: erase_book without the comparison of the caller with the owner
erase_book_any_caller(bs, t, username, id, current_user) ==
    LET db_user == crud_users_get(username)
        user_id == Val(db_user).id
        db_book == crud_books_get(bs, Some(id), Some(user_id), Some(FALSE))
        deleted == crud_books_delete(bs, t, id, Some(user_id))
    IN  IF db_user = None THEN Raise(404, "User not found", bs)
        ELSE IF db_book = None THEN Raise(404, "Book not found", bs)
        ELSE IF deleted.error # "" THEN Unhandled(deleted.error, bs)
        ELSE Result(200, [message |-> "Book deleted successfully"], deleted.books)


erase_book(bs, t, username, id, current_user) ==
    LET db_user == crud_users_get(username)
        user_id == Val(db_user).id
        db_book == crud_books_get(bs, Some(id), Some(user_id), Some(FALSE))
        deleted == crud_books_delete(bs, t, id, Some(user_id))
    IN  IF db_user = None THEN Raise(404, "User not found", bs)
        ELSE IF Val(current_user).id # user_id THEN Raise(403, "Forbidden", bs)
        ELSE IF db_book = None THEN Raise(404, "Book not found", bs)
        ELSE IF deleted.error # "" THEN Unhandled(deleted.error, bs)
        ELSE Result(200, [message |-> "Book deleted successfully"], deleted.books)

\* Mutant: a hard delete that looks only for a row that is not soft-deleted
erase_db_book_live_only(bs, username, id) ==
    LET db_user == crud_users_get(username)
        user_id == Val(db_user).id
        db_book == crud_books_get(bs, Some(id), Some(user_id), Some(FALSE))
        deleted == crud_books_db_delete(bs, id, Some(user_id))
    IN  IF db_user = None THEN Raise(404, "User not found", bs)
        ELSE IF db_book = None THEN Raise(404, "Book not found", bs)
        ELSE Result(200, [message |-> "Book permanently deleted successfully"],
                    deleted.books)

erase_db_book(bs, username, id) ==
    LET db_user == crud_users_get(username)
        user_id == Val(db_user).id
        db_book == crud_books_get(bs, Some(id), Some(user_id), None)
        deleted == crud_books_db_delete(bs, id, Some(user_id))
    IN  IF db_user = None THEN Raise(404, "User not found", bs)
        ELSE IF db_book = None THEN Raise(404, "Book not found", bs)
        ELSE Result(200, [message |-> "Book permanently deleted successfully"],
                    deleted.books)

read_public_book(bs, id) ==
    LET db_book == crud_books_get(bs, Some(id), None, Some(FALSE))
    IN  IF db_book = None THEN Raise(404, "Book not found", bs)
        ELSE Result(200, BookRead(Val(db_book)), bs)

----------------------------------------------------------------------------
(* The @cache(...) arguments of each decorated handler *)

expiration_read_all_books == 300
expiration_read_books == 0
expiration_default == 3600

CacheArgs(key_prefix, resource_id, expiration, extra, patterns) ==
    [key_prefix |-> key_prefix, resource_id |-> resource_id,
     expiration |-> expiration,
     to_invalidate_extra |-> extra,
     pattern_to_invalidate_extra |-> patterns]

cache_read_all_books(page, items_per_page) ==
    CacheArgs("public_books:page_" \o ToString(page)
                  \o ":items_per_page:" \o ToString(items_per_page),
              ToString(page), expiration_read_all_books, {}, {})
\* Mutant: read_books declared with the expiration of read_all_books
cache_read_books_expiring(username, page, items_per_page) ==
    CacheArgs(username \o "_books:page_" \o ToString(page)
                  \o ":items_per_page:" \o ToString(items_per_page),
              username, expiration_read_all_books, {}, {})


cache_read_books(username, page, items_per_page) ==
    CacheArgs(username \o "_books:page_" \o ToString(page)
                  \o ":items_per_page:" \o ToString(items_per_page),
              username, expiration_read_books, {}, {})

cache_read_book(username, id) ==
    CacheArgs(username \o "_book_cache", ToString(id), expiration_default, {}, {})
\* Mutant: patch_book declared like erase_book, with the extra entry but
\* without the wildcard pattern
cache_patch_book_no_pattern(username, id) ==
    CacheArgs(username \o "_book_cache", ToString(id), expiration_default,
              {[prefix |-> username \o "_books", id |-> username]}, {})


cache_patch_book(username, id) ==
    CacheArgs(username \o "_book_cache", ToString(id), expiration_default,
              {}, {username \o "_books:*"})

cache_erase_book(username, id) ==
    CacheArgs(username \o "_book_cache", ToString(id), expiration_default,
              {[prefix |-> username \o "_books", id |-> username]}, {})

cache_erase_db_book(username, id) ==
    CacheArgs(username \o "_book_cache", ToString(id), expiration_default,
              {[prefix |-> username \o "_books", id |-> username]}, {})

cache_read_public_book(id) ==
    CacheArgs("public_book_cache", ToString(id), expiration_default, {}, {})

----------------------------------------------------------------------------
(* The cache-aside decorator (app.core.utils.cache.cache) *)

\* The key of an entry: the formatted prefix and the resource id
CacheKey(key_prefix, resource_id) == key_prefix \o ":" \o resource_id

\* A wildcard pattern ending in "*" matches the keys that start with the
\* text before the "*"
KeyMatches(key, pattern) ==
    LET n == Len(pattern) - 1
    IN  Len(key) >= n /\ SubSeq(key, 1, n) = SubSeq(pattern, 1, n)

\* The keys a write invalidates: its own entry, the extra entries and
\* every key matching a declared pattern
KeysToInvalidate(store, args) ==
    {k \in DOMAIN store :
        \/ k = CacheKey(args.key_prefix, args.resource_id)
        \/ \E e \in args.to_invalidate_extra : k = CacheKey(e.prefix, e.id)
        \/ \E p \in args.pattern_to_invalidate_extra : KeyMatches(k, p)}

Outcome(h, store, source, evicted) ==
    [status |-> h.status, body |-> h.body, books |-> h.books,
     cache |-> store, source |-> source, evicted |-> evicted]
\* Mutant: a decorated read that raises when the client is missing
CachedRead_requires_client(store, cl, args, h) ==
    LET key == CacheKey(args.key_prefix, args.resource_id)
    IN  IF cl = "missing"
        THEN Outcome(Unhandled("MissingClientError", h.books), store, "handler", {})
        ELSE IF key \in DOMAIN store
        THEN Outcome(Result(200, store[key].payload, h.books), store, "cache", {})
        ELSE IF h.status = 200
        THEN Outcome(h, (key :> [payload |-> h.body, expiration |-> args.expiration])
                            @@ store, "handler", {})
        ELSE Outcome(h, store, "handler", {})

\* A decorated read: serve the stored payload on a hit; on a miss run the
\* handler and store a successful result.  Without a client, run the handler.
CachedRead(store, cl, args, h) ==
    LET key == CacheKey(args.key_prefix, args.resource_id)
    IN  IF cl = "missing" THEN Outcome(h, store, "handler", {})
        ELSE IF key \in DOMAIN store
        THEN Outcome(Result(200, store[key].payload, h.books), store, "cache", {})
        ELSE IF h.status = 200
        THEN Outcome(h, (key :> [payload |-> h.body, expiration |-> args.expiration])
                            @@ store, "handler", {})
        ELSE Outcome(h, store, "handler", {})

\* A decorated write: run the handler, then invalidate.  A handler that
\* raises invalidates nothing.  Without a client, run the handler.
CachedWrite(store, cl, args, h) ==
    LET gone == KeysToInvalidate(store, args)
    IN  IF cl = "missing" \/ h.status >= 400 THEN Outcome(h, store, "handler", {})
        ELSE Outcome(h, [k \in (DOMAIN store) \ gone |-> store[k]], "handler", gone)

----------------------------------------------------------------------------
(* The authentication dependencies (app.api.dependencies) *)

\* Depends(get_current_user): 401 without a valid token.  A dependency
\* that raises ends the request before the decorated handler is entered.
get_current_user(current_user, store, bs, otherwise) ==
    IF current_user = None
    THEN Outcome(Raise(401, "User not authenticated.", bs), store, "dependency", {})
    ELSE otherwise

\* Depends(get_current_superuser): 401 without a token, 403 for a caller
\* who is not a superuser
get_current_superuser(current_user, store, bs, otherwise) ==
    IF current_user = None
    THEN Outcome(Raise(401, "User not authenticated.", bs), store, "dependency", {})
    ELSE IF ~Val(current_user).is_superuser
    THEN Outcome(Raise(403, "You do not have enough privileges.", bs),
                 store, "dependency", {})
    ELSE otherwise

\* Validation of the request body against its schema: 422 before the
\* handler is entered.  The dependencies are solved first.
validate(ok, store, bs, otherwise) ==
    IF ~ok
    THEN Outcome(Raise(422, "validation error", bs), store, "validation", {})
    ELSE otherwise

----------------------------------------------------------------------------
(* The routes: dependency, decorator and handler composed *)

route_read_all_books(store, cl, bs, req) ==
    CachedRead(store, cl, cache_read_all_books(req.page, req.items_per_page),
               read_all_books(bs, req.page, req.items_per_page))

\* Mutant: the body validated before the credentials are looked at
route_write_book_validate_first(store, bs, nid, t, req) ==
    validate(ValidBookCreate(req.book), store, bs,
        get_current_user(req.current_user, store, bs,
            Outcome(write_book(bs, nid, t, req.username, req.book, req.current_user),
                    store, "handler", {})))

route_write_book(store, bs, nid, t, req) ==
    get_current_user(req.current_user, store, bs,
        validate(ValidBookCreate(req.book), store, bs,
            Outcome(write_book(bs, nid, t, req.username, req.book, req.current_user),
                    store, "handler", {})))

route_read_books(store, cl, bs, req) ==
    CachedRead(store, cl,
               cache_read_books(req.username, req.page, req.items_per_page),
               read_books(bs, req.username, req.page, req.items_per_page))

route_read_book(store, cl, bs, req) ==
    CachedRead(store, cl, cache_read_book(req.username, req.id),
               read_book(bs, req.username, req.id))

route_patch_book(store, cl, bs, t, req) ==
    get_current_user(req.current_user, store, bs,
        validate(ValidBookUpdate(req.values), store, bs,
            CachedWrite(store, cl, cache_patch_book(req.username, req.id),
                patch_book(bs, t, req.username, req.id, req.values, req.current_user))))

route_erase_book(store, cl, bs, t, req) ==
    get_current_user(req.current_user, store, bs,
        CachedWrite(store, cl, cache_erase_book(req.username, req.id),
            erase_book(bs, t, req.username, req.id, req.current_user)))

route_erase_db_book(store, cl, bs, req) ==
    get_current_superuser(req.current_user, store, bs,
        CachedWrite(store, cl, cache_erase_db_book(req.username, req.id),
            erase_db_book(bs, req.username, req.id)))

route_read_public_book(store, cl, bs, req) ==
    CachedRead(store, cl, cache_read_public_book(req.id), read_public_book(bs, req.id))

----------------------------------------------------------------------------
(* The import script scripts/import_pdfs.py: main() and the PDFImporter it *)
(* drives against the API.  A directory tree is the sequence of its files  *)
(* in the order scan_directory visits them.  A file's content stands for   *)
(* what the script derives from it: the title of the book it posts and the *)
(* content hash it looks for in the books the server lists (the title      *)
(* column of the model carries the descriptive columns of a row).          *)

MaxFiles == 2       \* files in the scanned directory tree

Contents == {"A", "B"}
Files == [suffix : {"pdf", "txt"}, readable : BOOLEAN, content : Contents]
Directories == UNION {[1..n -> Files] : n \in 0..MaxFiles}

\* self.stats of PDFImporter.__init__
NewStats == [total_files |-> 0, pdf_files |-> 0, created_books |-> 0,
             skipped_books |-> 0, errors |-> 0]

\* The parsed command line: --dry-run (store_true), the directory, --username
ImportArgs == [dry_run : BOOLEAN, directory : Directories, username : {"alice", "bob"}]

\* Before the script is started.  posted counts the POSTs to
\* /api/v1/{username}/book that the importer has issued.
NotRun ==
    [phase |-> "idle", args |-> [dry_run |-> FALSE, directory |-> << >>, username |-> ""],
     access_token |-> None, items |-> << >>, books_cache |-> << >>,
     stats |-> NewStats, posted |-> 0]

\* PDFImporter.authenticate: the token of the user who logged in, None
\* when the login is refused
authenticate(username, login_ok) ==
    IF login_ok THEN crud_users_get(username) ELSE None

\* main(): the arguments are parsed, args.dry_run selects the messages that
\* are printed, and the importer is built from the url, the username and
\* the password, entered (which authenticates) and set to scan the directory
main(args, login_ok) ==
    [phase |-> "scanning", args |-> args,
     access_token |-> authenticate(args.username, login_ok),
     items |-> args.directory, books_cache |-> << >>,
     stats |-> NewStats, posted |-> 0]

is_pdf_file(f) == f.suffix = "pdf"

\* get_file_info: None when the file cannot be read
get_file_info(f) == IF f.readable THEN Some([hash |-> f.content]) ELSE None

extract_book_metadata(f) == [title |-> f.content]

\* params = {'items_per_page': 100}
fetch_items_per_page == 100

\* get_books_in_db in one step, for a listing that fits the first page:
\* POST /api/v1/books with items_per_page=100; None (False in the code)
\* when the server does not answer 200 with JSON
get_books_in_db(bs, listed) ==
    IF listed THEN Some(read_all_books(bs, page_default, fetch_items_per_page).body.data)
    ELSE None

\* The page sizes get_books_in_db is run with request by request: the
\* script's own, and sizes small enough for a few books to span pages
FetchPageSizes == {1, 2, fetch_items_per_page}

\* What the server may answer to a request of the listing: the envelope
\* with 200, an error with a JSON body, or a 200 that is not JSON
ServerAnswers == {"listing", "json_error", "not_json"}

\* dict.get(key, default)
dict_get(d, key, default) == IF key \in DOMAIN d THEN d[key] ELSE default

\* The response to session.post(url, params=params)
list_response(bs, page, items_per_page, answer) ==
    CASE answer = "listing" ->
            [status |-> 200, json |-> TRUE,
             body |-> read_all_books(bs, page, items_per_page).body]
      [] answer = "json_error" ->
            [status |-> 503, json |-> TRUE, body |-> [detail |-> "Service Unavailable"]]
      [] answer = "not_json" ->
            [status |-> 200, json |-> FALSE, body |-> [text |-> "<html>"]]

\* Mutant: the loop keeps only the page it fetched last
list_assign(lst, items) == items

\* self.books_cache.extend(...)
list_extend(lst, items) == lst \o items

\* get_books_in_db before its first request; data is yet unassigned
NotFetching ==
    [stage |-> "idle", items_per_page |-> fetch_items_per_page,
     data |-> [unassigned |-> TRUE], books_cache |-> << >>, result |-> None,
     pages |-> << >>, answers |-> << >>]

\* get_books_in_db, the first request: False unless the answer is 200 and
\* JSON, else books_cache = data.get('data', [])
get_books_in_db_first(f, bs, items_per_page, answer) ==
    LET response == list_response(bs, page_default, items_per_page, answer)
        asked == [f EXCEPT !.items_per_page = items_per_page,
                           !.pages = <<page_default>>, !.answers = <<answer>>]
    IN  IF response.status # 200 \/ ~response.json
        THEN [asked EXCEPT !.stage = "returned", !.result = Some(FALSE)]
        ELSE [asked EXCEPT !.stage = "fetching", !.data = response.body,
                           !.books_cache = dict_get(response.body, "data", << >>)]

\* get_books_in_db, one turn of while data.get('has_more'): the status is
\* not looked at; response.json() raises on an answer that is not JSON,
\* and the except clause returns False
get_books_in_db_more(f, bs, answer) ==
    LET page == f.data.page + 1
        response == list_response(bs, page, f.items_per_page, answer)
        asked == [f EXCEPT !.pages = Append(@, page), !.answers = Append(@, answer)]
    IN  IF ~response.json
        THEN [asked EXCEPT !.stage = "returned", !.result = Some(FALSE)]
        ELSE [asked EXCEPT !.data = response.body,
                           !.books_cache =
                               list_extend(@, dict_get(response.body, "data", << >>))]


\* check_book_exists: the books are fetched while books_cache is empty
check_book_exists(imp, bs, listed, content_hash) ==
    LET fetched == IF imp.books_cache = << >> THEN get_books_in_db(bs, listed)
                   ELSE Some(imp.books_cache)
    IN  IF fetched = None THEN [exists |-> FALSE, books_cache |-> imp.books_cache]
        ELSE [exists |-> \E i \in DOMAIN Val(fetched) : Val(fetched)[i].title = content_hash,
              books_cache |-> Val(fetched)]

\* What a call of the importer leaves: the importer, and the request it
\* sent to /api/v1/{username}/book with the server's outcome, if it sent one
Imported(imp, request, out) == [importer |-> imp, request |-> request, out |-> out]

\* Mutant: create_book that does not remember the book it created
create_book_forgetful(imp, store, bs, nid, t, file_info, metadata, listed) ==
    LET found == check_book_exists(imp, bs, listed, file_info.hash)
        cached == [imp EXCEPT !.books_cache = found.books_cache]
        req == [op |-> "write_book", current_user |-> imp.access_token,
                username |-> imp.args.username,
                book |-> [title |-> metadata.title, isbn |-> None]]
        out == route_write_book(store, bs, nid, t, req)
    IN  IF found.exists
        THEN Imported([cached EXCEPT !.stats.skipped_books = @ + 1], None, None)
        ELSE IF out.status = 201
        THEN Imported([cached EXCEPT !.posted = @ + 1, !.stats.created_books = @ + 1],
                      Some(req), Some(out))
        ELSE Imported([cached EXCEPT !.posted = @ + 1, !.stats.errors = @ + 1],
                      Some(req), Some(out))

\* Mutant: create_book that does not count a refused POST as an error
create_book_uncounted(imp, store, bs, nid, t, file_info, metadata, listed) ==
    LET found == check_book_exists(imp, bs, listed, file_info.hash)
        cached == [imp EXCEPT !.books_cache = found.books_cache]
        req == [op |-> "write_book", current_user |-> imp.access_token,
                username |-> imp.args.username,
                book |-> [title |-> metadata.title, isbn |-> None]]
        out == route_write_book(store, bs, nid, t, req)
    IN  IF found.exists
        THEN Imported([cached EXCEPT !.stats.skipped_books = @ + 1], None, None)
        ELSE IF out.status = 201
        THEN Imported([cached EXCEPT !.posted = @ + 1,
                                     !.stats.created_books = @ + 1,
                                     !.books_cache = Append(@, out.body)],
                      Some(req), Some(out))
        ELSE Imported([cached EXCEPT !.posted = @ + 1], Some(req), Some(out))

\* create_book: skip a file whose hash a listed book has; else POST the book
create_book(imp, store, bs, nid, t, file_info, metadata, listed) ==
    LET found == check_book_exists(imp, bs, listed, file_info.hash)
        cached == [imp EXCEPT !.books_cache = found.books_cache]
        req == [op |-> "write_book", current_user |-> imp.access_token,
                username |-> imp.args.username,
                book |-> [title |-> metadata.title, isbn |-> None]]
        out == route_write_book(store, bs, nid, t, req)
    IN  IF found.exists
        THEN Imported([cached EXCEPT !.stats.skipped_books = @ + 1], None, None)
        ELSE IF out.status = 201
        THEN Imported([cached EXCEPT !.posted = @ + 1,
                                     !.stats.created_books = @ + 1,
                                     !.books_cache = Append(@, out.body)],
                      Some(req), Some(out))
        ELSE Imported([cached EXCEPT !.posted = @ + 1, !.stats.errors = @ + 1],
                      Some(req), Some(out))

\* process_pdf_file, called by scan_directory for the next file
process_pdf_file(imp, store, bs, nid, t, listed) ==
    LET f == Head(imp.items)
        counted == [imp EXCEPT !.items = Tail(@), !.stats.total_files = @ + 1]
        pdf == [counted EXCEPT !.stats.pdf_files = @ + 1]
        file_info == get_file_info(f)
    IN  IF ~is_pdf_file(f) THEN Imported(counted, None, None)
        ELSE IF file_info = None
        THEN Imported([pdf EXCEPT !.stats.errors = @ + 1], None, None)
        ELSE create_book(pdf, store, bs, nid, t, Val(file_info),
                         extract_book_metadata(f), listed)

----------------------------------------------------------------------------
(* The test runner tests_db/run_tests_with_cleanup.py *)

\* The parsed command line; --models is absent, or names test files that
\* all exist, or names one that does not
RunnerArgs ==
    [models : {"absent", "valid", "invalid"}, verbose : BOOLEAN, coverage : BOOLEAN,
     list_models : BOOLEAN, skip_cleanup : BOOLEAN]

\* The run before it is started.  steps lists, in order, cleanup_database
\* and verify_cleanup once completed and pytest once started.
NotStarted ==
    [phase |-> "idle",
     args |-> [models |-> "absent", verbose |-> FALSE, coverage |-> FALSE,
               list_models |-> FALSE, skip_cleanup |-> FALSE],
     steps |-> << >>, cleanup_success |-> None, cmd |-> << >>, returncode |-> None]

\* return code; sys.exit(exit_code)
Exit(r, code) == [r EXCEPT !.phase = "exited", !.returncode = Some(code)]

\* main, up to the cleanup: --list-models and invalid --models return first
runner_main(args) ==
    LET r == [NotStarted EXCEPT !.args = args]
    IN  IF args.list_models THEN Exit(r, 0)
        ELSE IF args.models = "invalid" THEN Exit(r, 1)
        ELSE IF ~args.skip_cleanup THEN [r EXCEPT !.phase = "cleanup_database"]
        ELSE [r EXCEPT !.phase = "run_tests"]

\* Mutant: main goes on to the tests whatever the cleanup returned
after_cleanup_ignored(r, cleanup_success) ==
    [r EXCEPT !.cleanup_success = Some(cleanup_success), !.phase = "run_tests"]

\* main: cleanup_success = await run_database_cleanup(); return 1 when False
after_cleanup(r, cleanup_success) ==
    LET known == [r EXCEPT !.cleanup_success = Some(cleanup_success)]
    IN  IF ~cleanup_success THEN Exit(known, 1)
        ELSE [known EXCEPT !.phase = "run_tests"]

\* run_database_cleanup after await cleanup_database(): an exception makes
\* it return False, else verify_cleanup is awaited
after_cleanup_database(r, raised) ==
    IF raised THEN after_cleanup(r, FALSE)
    ELSE [r EXCEPT !.steps = Append(@, "cleanup_database"), !.phase = "verify_cleanup"]

\* run_database_cleanup after await verify_cleanup()
after_verify_cleanup(r, raised) ==
    IF raised THEN after_cleanup(r, FALSE)
    ELSE after_cleanup([r EXCEPT !.steps = Append(@, "verify_cleanup")], TRUE)

\* The return codes of a pytest process
PytestCodes == {0, 1, 5}

\* run_tests_for_models: the pytest command line is built and run; started
\* is None when subprocess.run raises, and 1 is returned
run_tests_for_models(r, started) ==
    LET cmd == <<"python", "-m", "pytest">>
               \o (IF r.args.verbose THEN <<"-v">> ELSE << >>)
               \o (IF r.args.coverage THEN <<"--cov=src/app/models">> ELSE << >>)
               \o <<"tests_db/conftest.py", "tests_db/helpers/">>
        built == [r EXCEPT !.cmd = cmd]
    IN  IF started = None THEN Exit(built, 1)
        ELSE Exit([built EXCEPT !.steps = Append(@, "pytest")], Val(started))

----------------------------------------------------------------------------
(* The state machine *)

NoRequest == [op |-> "none"]
NoCall == [call |-> "none"]

Init ==
    /\ books = << >>
    /\ next_id = 1
    /\ now = 1
    /\ cache = << >>
    /\ client \in {"up", "missing"}
    /\ inflight = [s \in 1..MaxInflight |-> NoRequest]
    /\ resp = [req |-> NoRequest, status |-> 0, body |-> None,
               source |-> "none", evicted |-> {}]
    /\ tiers = << >>
    /\ rate_limits = << >>
    /\ users = << >>
    /\ seq = [tier |-> 1, rate_limit |-> 1, user |-> 1]
    /\ db_call = NoCall
    /\ importer = NotRun
    /\ fetch = NotFetching
    /\ runner = NotStarted

\* The server answers a request: the table, the cache and the response it
\* leaves.  A successful write advances the clock; an insert takes the next id.
Respond(req, out) ==
    /\ Cardinality(DOMAIN out.cache) <= MaxCache
    /\ books' = out.books
    /\ cache' = out.cache
    /\ next_id' = IF (DOMAIN out.books) \ (DOMAIN books) # {} THEN next_id + 1 ELSE next_id
    /\ now' = IF out.books # books THEN now + 1 ELSE now
    /\ resp' = [req |-> req, status |-> out.status, body |-> out.body,
                source |-> out.source, evicted |-> out.evicted]
    /\ UNCHANGED client

\* A request of a client of the API completes
Complete(req, out) ==
    /\ Respond(req, out)
    /\ UNCHANGED <<dbvars, scriptvars>>

CanWrite == now <= MaxTime

Req_read_all_books ==
    \E page \in PageParams, items_per_page \in PageSizeParams :
        LET req == [op |-> "read_all_books",
                    query |-> [page |-> page, items_per_page |-> items_per_page],
                    page |-> Default(page, page_default),
                    items_per_page |-> Default(items_per_page, items_per_page_default)]
        IN  Complete(req, route_read_all_books(cache, client, books, req)) /\ UNCHANGED inflight

Req_write_book ==
    /\ CanWrite
    /\ next_id <= MaxBooks
    /\ \E current_user \in CurrentUsers, username \in Usernames, book \in BookCreateBodies :
        LET req == [op |-> "write_book", current_user |-> current_user,
                    username |-> username, book |-> book]
        IN  Complete(req, route_write_book(cache, books, next_id, now, req)) /\ UNCHANGED inflight

Req_read_books ==
    \E username \in Usernames, page \in PageParams, items_per_page \in PageSizeParams :
        LET req == [op |-> "read_books", username |-> username,
                    query |-> [page |-> page, items_per_page |-> items_per_page],
                    page |-> Default(page, page_default),
                    items_per_page |-> Default(items_per_page, items_per_page_default)]
        IN  Complete(req, route_read_books(cache, client, books, req)) /\ UNCHANGED inflight

Req_read_book ==
    \E username \in Usernames, id \in BookIds :
        LET req == [op |-> "read_book", username |-> username, id |-> id]
        IN  Complete(req, route_read_book(cache, client, books, req)) /\ UNCHANGED inflight

Req_patch_book ==
    /\ CanWrite
    /\ \E current_user \in CurrentUsers, username \in Usernames, id \in BookIds,
          values \in BookUpdateBodies :
        LET req == [op |-> "patch_book", current_user |-> current_user,
                    username |-> username, id |-> id, values |-> values]
        IN  Complete(req, route_patch_book(cache, client, books, now, req)) /\ UNCHANGED inflight

Req_erase_book ==
    /\ CanWrite
    /\ \E current_user \in CurrentUsers, username \in Usernames, id \in BookIds :
        LET req == [op |-> "erase_book", current_user |-> current_user,
                    username |-> username, id |-> id]
        IN  Complete(req, route_erase_book(cache, client, books, now, req)) /\ UNCHANGED inflight

Req_erase_db_book ==
    /\ CanWrite
    /\ \E current_user \in CurrentUsers, username \in Usernames, id \in BookIds :
        LET req == [op |-> "erase_db_book", current_user |-> current_user,
                    username |-> username, id |-> id]
        IN  Complete(req, route_erase_db_book(cache, client, books, req)) /\ UNCHANGED inflight

Req_read_public_book ==
    \E id \in BookIds :
        LET req == [op |-> "read_public_book", id |-> id]
        IN  Complete(req, route_read_public_book(cache, client, books, req)) /\ UNCHANGED inflight

\* Time passes: an entry stored with a positive expiration leaves the store.
\* resp records the event, so that it always describes the last step.
Expire ==
    /\ \E k \in DOMAIN cache :
        /\ cache[k].expiration > 0
        /\ cache' = [j \in (DOMAIN cache) \ {k} |-> cache[j]]
        /\ resp' = [req |-> [op |-> "expire", key |-> k], status |-> 0,
                    body |-> None, source |-> "none", evicted |-> {k}]
    /\ UNCHANGED <<books, next_id, now, client, inflight, dbvars, scriptvars>>

Next ==
    \/ Req_read_all_books
    \/ Req_write_book
    \/ Req_read_books
    \/ Req_read_book
    \/ Req_patch_book
    \/ Req_erase_book
    \/ Req_erase_db_book
    \/ Req_read_public_book
    \/ Expire

Spec == Init /\ [][Next]_vars

----------------------------------------------------------------------------
(* Concurrent requests.  A handler is a coroutine: it can be suspended at  *)
(* each await, and another request may run in between.  The write handlers *)
(* are split at the await of their write (crud_books.create / update), the *)
(* point between the ISBN pre-check and the statement the unique index     *)
(* decides.  Each worker slot holds at most one suspended request.         *)

Slots == 1..MaxInflight

\* write_book runs to the await of crud_books.create: a failed dependency
\* or check completes the request, otherwise the request is suspended
Begin_write_book(s) ==
    /\ inflight[s] = NoRequest
    /\ CanWrite
    /\ next_id <= MaxBooks
    /\ \E current_user \in CurrentUsers, username \in Usernames, book \in BookCreates :
        LET req == [op |-> "write_book", current_user |-> current_user,
                    username |-> username, book |-> book]
            failed == IF current_user = None
                      THEN Some(Raise(401, "User not authenticated.", books))
                      ELSE write_book_checks(books, username, book, current_user)
        IN  IF failed # None
            THEN /\ Complete(req, Outcome(Val(failed), cache,
                        IF current_user = None THEN "dependency" ELSE "handler", {}))
                 /\ UNCHANGED inflight
            ELSE /\ inflight' = [inflight EXCEPT ![s] = req]
                 /\ UNCHANGED <<books, next_id, now, cache, client, resp, dbvars, scriptvars>>

\* the suspended write_book resumes: the insert, then the response
Finish_write_book(s) ==
    /\ inflight[s] # NoRequest
    /\ inflight[s].op = "write_book"
    /\ LET req == inflight[s]
       IN  Complete(req, Outcome(
               write_book_create(books, next_id, now, req.username, req.book),
               cache, "handler", {}))
    /\ inflight' = [inflight EXCEPT ![s] = NoRequest]

\* patch_book runs to the await of crud_books.update
Begin_patch_book(s) ==
    /\ inflight[s] = NoRequest
    /\ CanWrite
    /\ \E current_user \in CurrentUsers, username \in Usernames, id \in BookIds,
          values \in BookUpdates :
        LET req == [op |-> "patch_book", current_user |-> current_user,
                    username |-> username, id |-> id, values |-> values]
            failed == IF current_user = None
                      THEN Some(Raise(401, "User not authenticated.", books))
                      ELSE patch_book_checks(books, username, id, values, current_user)
        IN  IF failed # None
            THEN /\ Complete(req, Outcome(Val(failed), cache,
                        IF current_user = None THEN "dependency" ELSE "handler", {}))
                 /\ UNCHANGED inflight
            ELSE /\ inflight' = [inflight EXCEPT ![s] = req]
                 /\ UNCHANGED <<books, next_id, now, cache, client, resp, dbvars, scriptvars>>

\* the suspended patch_book resumes: the update, the response, and the
\* decorator's invalidation after a successful handler
Finish_patch_book(s) ==
    /\ inflight[s] # NoRequest
    /\ inflight[s].op = "patch_book"
    /\ LET req == inflight[s]
       IN  Complete(req, CachedWrite(cache, client,
               cache_patch_book(req.username, req.id),
               patch_book_update(books, now, req.username, req.id, req.values)))
    /\ inflight' = [inflight EXCEPT ![s] = NoRequest]

\* A DELETE that runs from start to end between the steps of the others
NextRace ==
    \/ \E s \in Slots :
        \/ Begin_write_book(s)
        \/ Finish_write_book(s)
        \/ Begin_patch_book(s)
        \/ Finish_patch_book(s)
    \/ Req_erase_book

SpecRace == Init /\ [][NextRace]_vars

----------------------------------------------------------------------------
(* The tier and rate limit tables and their accessors, crud_tiers and      *)
(* crud_rate_limits, called directly as the database tests call them.      *)
(* tier.name and rate_limit.name are unique; rate_limit.tier_id refers to  *)
(* tier.id.  Neither table has an is_deleted column, so delete removes the *)
(* row.  A statement that fails changes nothing.                           *)

MaxTiers == 2        \* tier rows ever inserted
MaxRateLimits == 2   \* rate limit rows ever inserted

TierNames == {"free", "pro"}
TierIds == 1..MaxTiers
TierCreates == {[name |-> n] : n \in TierNames}
TierUpdates == {[f \in {"name"} |-> n] : n \in TierNames}

RateLimitNames == {"r1", "r2"}
RateLimitIds == 1..MaxRateLimits
RateLimitCreates ==
    {[tier_id |-> i, name |-> n, path |-> "/api/v1/x", limit |-> 10, period |-> 60] :
        i \in TierIds, n \in RateLimitNames}
RateLimitUpdates ==
    {[f \in {"limit"} |-> 999]} \cup {[f \in {"name"} |-> n] : n \in RateLimitNames}

\* A unique index: another stored row already holds the value
UniqueTaken(rows, field, value, except) ==
    \E j \in DOMAIN rows : j # except /\ rows[j][field] = value

\* crud.get(db, id=id): the row, or None
crud_get(rows, id) == IF id \in DOMAIN rows THEN Some(rows[id]) ELSE None

\* crud.create(db, object=obj) on a table with the given unique columns
crud_create(rows, nid, t, obj, unique) ==
    IF \E f \in unique : UniqueTaken(rows, f, obj[f], 0)
    THEN [error |-> "IntegrityError", rows |-> rows]
    ELSE [error |-> "",
          rows |-> (nid :> ([id |-> nid, created_at |-> t, updated_at |-> None] @@ obj))
                       @@ rows]

\* Mutant: an update that writes every column of the object, the ones that
\* were not set as null
UpdatedRow_all_columns(r, t, values) ==
    [f \in DOMAIN r |->
        IF f \in {"id", "created_at"} THEN r[f]
        ELSE IF f = "updated_at" THEN Some(t)
        ELSE IF f \in DOMAIN values THEN values[f] ELSE None]

\* One row after crud.update: the columns that were set take the new
\* values, updated_at takes the time of the update
UpdatedRow(r, t, values) ==
    [f \in DOMAIN r |->
        IF f \in DOMAIN values THEN values[f]
        ELSE IF f = "updated_at" THEN Some(t)
        ELSE r[f]]

\* crud.update(db, object=values, id=id)
crud_update(rows, t, values, id, unique) ==
    IF id \notin DOMAIN rows THEN [error |-> "NoResultFound", rows |-> rows]
    ELSE IF \E f \in unique \cap DOMAIN values : UniqueTaken(rows, f, values[f], id)
    THEN [error |-> "IntegrityError", rows |-> rows]
    ELSE [error |-> "", rows |-> [rows EXCEPT ![id] = UpdatedRow(@, t, values)]]

\* Mutant: a delete that is silent when no row matches
crud_delete_if_exists(rows, id, referencing) ==
    IF id \notin DOMAIN rows THEN [error |-> "", rows |-> rows]
    ELSE IF referencing # {} THEN [error |-> "IntegrityError", rows |-> rows]
    ELSE [error |-> "", rows |-> [j \in (DOMAIN rows) \ {id} |-> rows[j]]]

\* crud.delete(db, id=id) on a table without is_deleted; referencing is the
\* set of rows of other tables whose foreign key points at the row
crud_delete(rows, id, referencing) ==
    IF id \notin DOMAIN rows THEN [error |-> "NoResultFound", rows |-> rows]
    ELSE IF referencing # {} THEN [error |-> "IntegrityError", rows |-> rows]
    ELSE [error |-> "", rows |-> [j \in (DOMAIN rows) \ {id} |-> rows[j]]]

crud_tiers_create(ts, nid, t, obj) == crud_create(ts, nid, t, obj, {"name"})
crud_tiers_update(ts, t, values, id) == crud_update(ts, t, values, id, {"name"})
\* Mutant: a tier delete that ignores the rate limits referring to the tier
crud_tiers_delete_unchecked(ts, rls, id) == crud_delete(ts, id, {})

crud_tiers_delete(ts, rls, id) ==
    crud_delete(ts, id, {j \in DOMAIN rls : rls[j].tier_id = id})

\* rate_limit.tier_id is a foreign key: the tier must exist
crud_rate_limits_create(rls, ts, nid, t, obj) ==
    IF obj.tier_id \notin DOMAIN ts THEN [error |-> "IntegrityError", rows |-> rls]
    ELSE crud_create(rls, nid, t, obj, {"name"})
crud_rate_limits_update(rls, t, values, id) == crud_update(rls, t, values, id, {"name"})
crud_rate_limits_delete(rls, id) == crud_delete(rls, id, {})

\* The user table as the accessor tests fill it: user.username and
\* user.email are unique
MaxUsers == 2        \* user rows ever inserted
UserCreateInternals ==
    {[name |-> "N", username |-> u, email |-> e, is_deleted |-> FALSE, deleted_at |-> None] :
        u \in {"alice", "bob"}, e \in {"a@example.com", "b@example.com"}}
UserUpdates == {[f \in {"name"} |-> "Updated Name"]}

crud_users_create(us, nid, t, obj) == crud_create(us, nid, t, obj, {"username", "email"})

\* crud_users.update(db, object=values, username=username)
crud_users_update(us, t, values, username) ==
    LET m == {j \in DOMAIN us : us[j].username = username}
    IN  IF m = {} THEN [error |-> "NoResultFound", rows |-> us]
        ELSE crud_update(us, t, values, CHOOSE j \in m : TRUE, {"username", "email"})

\* crud_users.delete(db, username=username): a soft delete, since User has
\* the is_deleted column
crud_users_delete(us, t, username) ==
    LET m == {j \in DOMAIN us : us[j].username = username}
    IN  IF m = {} THEN [error |-> "NoResultFound", rows |-> us]
        ELSE [error |-> "",
              rows |-> [us EXCEPT ![CHOOSE j \in m : TRUE] = MarkDeleted(@, t)]]

----------------------------------------------------------------------------
(* Direct calls of the accessors *)

BookOwners == {u.id : u \in {x \in UserTable : ~x.is_deleted}}
BookCreateInternals ==
    {[title |-> b.title, isbn |-> b.isbn, created_by_user_id |-> o] :
        b \in BookCreates, o \in BookOwners}

Call(name, id, object, error, returned) ==
    [call |-> name, id |-> id, object |-> object, error |-> error, returned |-> returned]

\* A call returns: the tables it leaves and its outcome.  A statement that
\* changed a table advances the clock; an insert takes the next id.
DbComplete(call, bs, ts, rls, us) ==
    /\ books' = bs
    /\ tiers' = ts
    /\ rate_limits' = rls
    /\ users' = us
    /\ next_id' = IF (DOMAIN bs) \ (DOMAIN books) # {} THEN next_id + 1 ELSE next_id
    /\ seq' = [tier |-> IF (DOMAIN ts) \ (DOMAIN tiers) # {}
                        THEN seq.tier + 1 ELSE seq.tier,
               rate_limit |-> IF (DOMAIN rls) \ (DOMAIN rate_limits) # {}
                              THEN seq.rate_limit + 1 ELSE seq.rate_limit,
               user |-> IF (DOMAIN us) \ (DOMAIN users) # {}
                        THEN seq.user + 1 ELSE seq.user]
    /\ now' = IF <<bs, ts, rls, us>> # <<books, tiers, rate_limits, users>>
              THEN now + 1 ELSE now
    /\ db_call' = call
    /\ UNCHANGED <<cache, client, inflight, resp, scriptvars>>

\* The clock bound of the direct calls
MaxDbTime == 4
DbCanWrite == now <= MaxDbTime

Db_tiers_create ==
    /\ DbCanWrite
    /\ seq.tier <= MaxTiers
    /\ \E obj \in TierCreates :
        LET out == crud_tiers_create(tiers, seq.tier, now, obj)
        IN  DbComplete(Call("tiers.create", None, obj, out.error, None),
                       books, out.rows, rate_limits, users)

Db_tiers_get ==
    \E id \in TierIds :
        LET returned == crud_get(tiers, id)
        IN  DbComplete(Call("tiers.get", Some(id), None, "", returned),
                       books, tiers, rate_limits, users)

Db_tiers_update ==
    /\ DbCanWrite
    /\ \E id \in TierIds, values \in TierUpdates :
        LET out == crud_tiers_update(tiers, now, values, id)
        IN  DbComplete(Call("tiers.update", Some(id), values, out.error, None),
                       books, out.rows, rate_limits, users)

Db_tiers_delete ==
    /\ DbCanWrite
    /\ \E id \in TierIds :
        LET out == crud_tiers_delete(tiers, rate_limits, id)
        IN  DbComplete(Call("tiers.delete", Some(id), None, out.error, None),
                       books, out.rows, rate_limits, users)

Db_rate_limits_create ==
    /\ DbCanWrite
    /\ seq.rate_limit <= MaxRateLimits
    /\ \E obj \in RateLimitCreates :
        LET out == crud_rate_limits_create(rate_limits, tiers, seq.rate_limit, now, obj)
        IN  DbComplete(Call("rate_limits.create", None, obj, out.error, None),
                       books, tiers, out.rows, users)

Db_rate_limits_get ==
    \E id \in RateLimitIds :
        LET returned == crud_get(rate_limits, id)
        IN  DbComplete(Call("rate_limits.get", Some(id), None, "", returned),
                       books, tiers, rate_limits, users)

Db_rate_limits_update ==
    /\ DbCanWrite
    /\ \E id \in RateLimitIds, values \in RateLimitUpdates :
        LET out == crud_rate_limits_update(rate_limits, now, values, id)
        IN  DbComplete(Call("rate_limits.update", Some(id), values, out.error, None),
                       books, tiers, out.rows, users)

Db_rate_limits_delete ==
    /\ DbCanWrite
    /\ \E id \in RateLimitIds :
        LET out == crud_rate_limits_delete(rate_limits, id)
        IN  DbComplete(Call("rate_limits.delete", Some(id), None, out.error, None),
                       books, tiers, out.rows, users)

Db_books_create ==
    /\ DbCanWrite
    /\ next_id <= MaxBooks
    /\ \E obj \in BookCreateInternals :
        LET out == crud_books_create(books, next_id, now, obj)
        IN  DbComplete(Call("books.create", None, obj, out.error, None),
                       out.books, tiers, rate_limits, users)

Db_books_get ==
    \E id \in BookIds :
        LET returned == crud_books_get(books, Some(id), None, None)
        IN  DbComplete(Call("books.get", Some(id), None, "", returned),
                       books, tiers, rate_limits, users)

Db_books_update ==
    /\ DbCanWrite
    /\ \E id \in BookIds, values \in BookUpdates :
        LET out == crud_books_update(books, now, values, id, None)
        IN  DbComplete(Call("books.update", Some(id), values, out.error, None),
                       out.books, tiers, rate_limits, users)

Db_books_delete ==
    /\ DbCanWrite
    /\ \E id \in BookIds :
        LET out == crud_books_delete(books, now, id, None)
        IN  DbComplete(Call("books.delete", Some(id), None, out.error, None),
                       out.books, tiers, rate_limits, users)

Db_users_create ==
    /\ DbCanWrite
    /\ seq.user <= MaxUsers
    /\ \E obj \in UserCreateInternals :
        LET out == crud_users_create(users, seq.user, now, obj)
        IN  DbComplete(Call("users.create", None, obj, out.error, None),
                       books, tiers, rate_limits, out.rows)

Db_users_update ==
    /\ DbCanWrite
    /\ \E username \in {"alice", "bob"}, values \in UserUpdates :
        LET out == crud_users_update(users, now, values, username)
        IN  DbComplete(Call("users.update", Some(username), values, out.error, None),
                       books, tiers, rate_limits, out.rows)

Db_users_delete ==
    /\ DbCanWrite
    /\ \E username \in {"alice", "bob"} :
        LET out == crud_users_delete(users, now, username)
        IN  DbComplete(Call("users.delete", Some(username), None, out.error, None),
                       books, tiers, rate_limits, out.rows)

NextDb ==
    \/ Db_tiers_create
    \/ Db_tiers_get
    \/ Db_tiers_update
    \/ Db_tiers_delete
    \/ Db_rate_limits_create
    \/ Db_rate_limits_get
    \/ Db_rate_limits_update
    \/ Db_rate_limits_delete
    \/ Db_books_create
    \/ Db_books_get
    \/ Db_books_update
    \/ Db_books_delete
    \/ Db_users_create
    \/ Db_users_update
    \/ Db_users_delete

SpecDb == Init /\ [][NextDb]_vars

----------------------------------------------------------------------------
(* The run of the import script *)

\* python scripts/import_pdfs.py DIRECTORY [--dry-run] [--username U]
Import_main ==
    /\ importer.phase = "idle"
    /\ \E args \in ImportArgs, login_ok \in BOOLEAN :
        importer' = main(args, login_ok)
    /\ UNCHANGED <<books, next_id, now, cache, client, inflight, resp, dbvars, fetch, runner>>

\* scan_directory takes the next file and awaits process_pdf_file
Import_process_pdf_file ==
    /\ importer.phase = "scanning"
    /\ importer.items # << >>
    /\ \E listed \in BOOLEAN :
        LET done == process_pdf_file(importer, cache, books, next_id, now, listed)
        IN  /\ importer' = done.importer
            /\ IF done.request = None
               THEN UNCHANGED <<books, next_id, now, cache, client, resp>>
               ELSE Respond(Val(done.request), Val(done.out))
    /\ UNCHANGED <<inflight, dbvars, fetch, runner>>

\* the directory is exhausted: print_stats, and the importer is left
Import_print_stats ==
    /\ importer.phase = "scanning"
    /\ importer.items = << >>
    /\ importer' = [importer EXCEPT !.phase = "done"]
    /\ UNCHANGED <<books, next_id, now, cache, client, inflight, resp, dbvars, fetch, runner>>

\* The server the script talks to also serves the clients of the API, who
\* create books before and during a run
NextImport ==
    \/ Import_main
    \/ Import_process_pdf_file
    \/ Import_print_stats
    \/ Req_write_book

SpecImport == Init /\ [][NextImport]_vars

----------------------------------------------------------------------------
(* PDFImporter.get_books_in_db, request by request *)

\* the first POST /api/v1/books
Fetch_first ==
    /\ fetch.stage = "idle"
    /\ \E items_per_page \in FetchPageSizes, answer \in ServerAnswers :
        fetch' = get_books_in_db_first(fetch, books, items_per_page, answer)
    /\ UNCHANGED <<books, next_id, now, cache, client, inflight, resp, dbvars,
                   importer, runner>>

\* while data.get('has_more'): the next page is requested
Fetch_more ==
    /\ fetch.stage = "fetching"
    /\ dict_get(fetch.data, "has_more", FALSE)
    /\ \E answer \in ServerAnswers :
        fetch' = get_books_in_db_more(fetch, books, answer)
    /\ UNCHANGED <<books, next_id, now, cache, client, inflight, resp, dbvars,
                   importer, runner>>

\* the loop is left: return True
Fetch_return ==
    /\ fetch.stage = "fetching"
    /\ ~dict_get(fetch.data, "has_more", FALSE)
    /\ fetch' = [fetch EXCEPT !.stage = "returned", !.result = Some(TRUE)]
    /\ UNCHANGED <<books, next_id, now, cache, client, inflight, resp, dbvars,
                   importer, runner>>

\* The books of the listing are created before the fetch starts
Fetch_listing ==
    /\ fetch.stage = "idle"
    /\ Req_write_book

NextFetch ==
    \/ Fetch_listing
    \/ Fetch_first
    \/ Fetch_more
    \/ Fetch_return

\* The coroutine is resumed when its request is answered
SpecFetch ==
    /\ Init
    /\ [][NextFetch]_vars
    /\ WF_vars(Fetch_more)
    /\ WF_vars(Fetch_return)

----------------------------------------------------------------------------
(* The run of the test runner *)

\* python tests_db/run_tests_with_cleanup.py [--models M] [-v] [-c]
\* [--list-models] [--skip-cleanup]
Runner_main ==
    /\ runner.phase = "idle"
    /\ \E args \in RunnerArgs : runner' = runner_main(args)
    /\ UNCHANGED <<books, next_id, now, cache, client, inflight, resp, dbvars,
                   importer, fetch>>

\* cleanup_database: every table of the public schema is truncated in one
\* transaction, or the exception is raised again and nothing is changed
Runner_cleanup_database ==
    /\ runner.phase = "cleanup_database"
    /\ \E raised \in BOOLEAN :
        /\ runner' = after_cleanup_database(runner, raised)
        /\ IF raised THEN UNCHANGED <<books, tiers, rate_limits, users>>
           ELSE /\ books' = << >>
                /\ tiers' = << >>
                /\ rate_limits' = << >>
                /\ users' = << >>
    /\ UNCHANGED <<next_id, now, cache, client, inflight, resp, seq, db_call,
                   importer, fetch>>

\* verify_cleanup: the rows are counted and logged; it raises only outside
\* its try block
Runner_verify_cleanup ==
    /\ runner.phase = "verify_cleanup"
    /\ \E raised \in BOOLEAN : runner' = after_verify_cleanup(runner, raised)
    /\ UNCHANGED <<books, next_id, now, cache, client, inflight, resp, dbvars,
                   importer, fetch>>

\* run_tests_for_models and the return of main
Runner_run_tests ==
    /\ runner.phase = "run_tests"
    /\ \E started \in {None} \cup {Some(c) : c \in PytestCodes} :
        runner' = run_tests_for_models(runner, started)
    /\ UNCHANGED <<books, next_id, now, cache, client, inflight, resp, dbvars,
                   importer, fetch>>

\* The rows an earlier run of the tests left in the database
Runner_leftover ==
    /\ runner.phase = "idle"
    /\ Db_books_create

NextRunner ==
    \/ Runner_leftover
    \/ Runner_main
    \/ Runner_cleanup_database
    \/ Runner_verify_cleanup
    \/ Runner_run_tests

SpecRunner == Init /\ [][NextRunner]_vars

----------------------------------------------------------------------------
(* Properties *)

WriteOps == {"write_book", "patch_book", "erase_book", "erase_db_book"}
ReadOps == {"read_all_books", "read_books", "read_book", "read_public_book"}

\* The ids of the items of a paginated body
DataIds(body) == {body.data[i].id : i \in 1..Len(body.data)}

\* C1: after a successful PATCH of a user's book, a GET of that user's book
\* list, for every page and items_per_page, returns what the handler
\* computes from the table (no stale cached payload), and an item for the
\* patched book carries the patched title.
C1_PatchThenListIsFresh ==
    (resp.req.op = "patch_book" /\ resp.status = 200) =>
        \A page \in Pages, items_per_page \in PageSizes :
            LET req == [op |-> "read_books", username |-> resp.req.username,
                        page |-> page, items_per_page |-> items_per_page]
                got == route_read_books(cache, client, books, req)
                fresh == read_books(books, resp.req.username, page, items_per_page)
            IN  /\ got.status = 200
                /\ got.body = fresh.body
                /\ \A i \in 1..Len(got.body.data) :
                      (got.body.data[i].id = resp.req.id
                           /\ "title" \in DOMAIN resp.req.values)
                          => got.body.data[i].title = resp.req.values["title"]

\* C1 witness: a successful PATCH of a title that invalidated a cached page
\* of the owner's list
C1_Witness ==
    /\ resp.req.op = "patch_book"
    /\ resp.status = 200
    /\ "title" \in DOMAIN resp.req.values
    /\ \E k \in resp.evicted : KeyMatches(k, resp.req.username \o "_books:*")

\* The caller and the owner of a write under /{username}/...
CallerId(req) == Val(req.current_user).id
OwnerId(req) == Val(crud_users_get(req.username)).id

\* The body of a write passes its schema (a DELETE has none)
ValidBody(req) ==
    CASE req.op = "write_book" -> ValidBookCreate(req.book)
      [] req.op = "patch_book" -> ValidBookUpdate(req.values)
      [] OTHER -> TRUE

\* The target of a PATCH or DELETE is a stored, non-deleted book of the owner
TargetExists(bs, req) ==
    crud_books_get(bs, Some(req.id), Some(OwnerId(req)), Some(FALSE)) # None

\* No stored row stands in the way of the ISBN a write carries
NoDuplicate(bs, req) ==
    CASE req.op = "write_book" -> ~IsbnTaken(bs, req.book.isbn, 0)
      [] req.op = "patch_book" -> ~IsbnTaken(bs, ValuesIsbn(req.values), req.id)
      [] OTHER -> TRUE

\* C2: for an authenticated caller with a valid body and a live user named in the path,
\* write_book, patch_book and erase_book answer 403 and leave the table as
\* it was when the caller is not the owner; when the caller is the owner,
\* the target exists and no stored row holds the ISBN carried, they succeed.
C2_OwnerOnlyWrites ==
    [][ LET req == resp'.req
        IN  (/\ req.op \in {"write_book", "patch_book", "erase_book"}
             /\ req.current_user # None
             /\ ValidBody(req)
             /\ crud_users_get(req.username) # None)
            => /\ CallerId(req) # OwnerId(req)
                    => (resp'.status = 403 /\ books' = books)
               /\ (/\ CallerId(req) = OwnerId(req)
                   /\ (req.op = "write_book" \/ TargetExists(books, req))
                   /\ NoDuplicate(books, req))
                    => (resp'.status \in {200, 201} /\ books' # books)
      ]_vars

\* C2 witness: a non-owner's DELETE of an existing book of the named user
\* was answered 403
C2_Witness ==
    /\ resp.req.op = "erase_book"
    /\ resp.status = 403
    /\ TargetExists(books, resp.req)

\* C3: write_book by the owner, with a body that passes the schema and the
\* ISBN of a stored non-deleted book, answers 409 and adds no row; with a null ISBN no duplicate check applies
\* and the book is created, whatever rows with a null ISBN are stored.
C3_DuplicateIsbnOnCreate ==
    [][ LET req == resp'.req
        IN  (/\ req.op = "write_book"
             /\ req.current_user # None
             /\ ValidBody(req)
             /\ crud_users_get(req.username) # None
             /\ CallerId(req) = OwnerId(req))
            => /\ (req.book.isbn # None
                     /\ crud_books_exists(books, Val(req.book.isbn), FALSE))
                    => (resp'.status = 409 /\ books' = books)
               /\ req.book.isbn = None
                    => /\ resp'.status = 201
                       /\ DOMAIN books' = DOMAIN books \cup {next_id}
                       /\ books'[next_id].isbn = None
      ]_vars

\* C3 witness: a create with the ISBN of a stored non-deleted book was
\* answered 409
C3_Witness ==
    /\ resp.req.op = "write_book"
    /\ resp.status = 409
    /\ crud_books_exists(books, Val(resp.req.book.isbn), FALSE)

\* C4: when a write_book or patch_book that passed the ISBN pre-check resumes
\* and the unique index rejects its statement because a concurrent request
\* stored the same ISBN in a non-deleted row meanwhile, the response is the
\* 409 conflict, never an unhandled 500.
C4_RaceAnswers409 ==
    [][ \A s \in Slots :
          LET req == inflight[s]
              isbn == IF req.op = "write_book" THEN req.book.isbn
                      ELSE ValuesIsbn(req.values)
          IN  (/\ req.op \in {"write_book", "patch_book"}
               /\ inflight'[s] = NoRequest
               /\ isbn # None
               /\ crud_books_exists(books, Val(isbn), FALSE)
               /\ IsbnTaken(books, isbn, IF req.op = "patch_book" THEN req.id ELSE 0))
              => resp'.status = 409
      ]_vars

\* C5: after the owner's successful soft delete of a book, the public GET
\* of that book answers 404, whatever the cache holds.
C5_DeletedBookIs404 ==
    (resp.req.op = "erase_book" /\ resp.status = 200) =>
        route_read_public_book(cache, client, books,
            [op |-> "read_public_book", id |-> resp.req.id]).status = 404

\* C6: after a successful DELETE (erase_book or erase_db_book) of a user's
\* book, no page of that user's list, cached or not, contains the book.
C6_DeletedBookNotListed ==
    (resp.req.op \in {"erase_book", "erase_db_book"} /\ resp.status = 200) =>
        \A page \in Pages, items_per_page \in PageSizes :
            LET got == route_read_books(cache, client, books,
                    [op |-> "read_books", username |-> resp.req.username,
                     page |-> page, items_per_page |-> items_per_page])
            IN  got.status = 200 /\ resp.req.id \notin DataIds(got.body)

\* The decorator arguments and the handler of a read request
ReadArgs(req) ==
    CASE req.op = "read_all_books" -> cache_read_all_books(req.page, req.items_per_page)
      [] req.op = "read_books" ->
            cache_read_books(req.username, req.page, req.items_per_page)
      [] req.op = "read_book" -> cache_read_book(req.username, req.id)
      [] req.op = "read_public_book" -> cache_read_public_book(req.id)

ReadHandler(bs, req) ==
    CASE req.op = "read_all_books" -> read_all_books(bs, req.page, req.items_per_page)
      [] req.op = "read_books" ->
            read_books(bs, req.username, req.page, req.items_per_page)
      [] req.op = "read_book" -> read_book(bs, req.username, req.id)
      [] req.op = "read_public_book" -> read_public_book(bs, req.id)

\* The expiration each read handler is declared with
ConfiguredExpiration(op) ==
    CASE op = "read_all_books" -> expiration_read_all_books
      [] op = "read_books" -> expiration_read_books
      [] OTHER -> expiration_default

\* C7: with a cache client, a read whose key is in the store returns the
\* stored payload without running the handler and changes nothing; a read
\* whose key is absent returns the handler's result and, when it succeeded,
\* stores it under that key with the handler's configured expiration; an
\* entry stored with expiration 0 leaves the store only when a successful
\* write invalidates it.
C7_CacheAside ==
    [][ client = "up" =>
        /\ resp'.req.op \in ReadOps =>
            LET req == resp'.req
                args == ReadArgs(req)
                key == CacheKey(args.key_prefix, args.resource_id)
                h == ReadHandler(books, req)
            IN  IF key \in DOMAIN cache
                THEN /\ resp'.source = "cache"
                     /\ resp'.status = 200
                     /\ resp'.body = cache[key].payload
                     /\ cache' = cache
                     /\ books' = books
                ELSE /\ resp'.source = "handler"
                     /\ resp'.status = h.status
                     /\ resp'.body = h.body
                     /\ books' = books
                     /\ IF h.status = 200
                        THEN /\ DOMAIN cache' = DOMAIN cache \cup {key}
                             /\ cache'[key] = [payload |-> h.body,
                                               expiration |-> ConfiguredExpiration(req.op)]
                             /\ \A k \in DOMAIN cache : cache'[k] = cache[k]
                        ELSE cache' = cache
        /\ \A k \in DOMAIN cache :
              (cache[k].expiration = 0 /\ k \notin DOMAIN cache')
                  => /\ resp'.req.op \in WriteOps
                     /\ resp'.status = 200
                     /\ k \in resp'.evicted
      ]_vars

\* C7 witness: a GET of a user's list was served from the cache, from an
\* entry stored without expiration
C7_Witness ==
    /\ resp.req.op = "read_books"
    /\ resp.source = "cache"
    /\ \E k \in DOMAIN cache : cache[k].expiration = 0 /\ cache[k].payload = resp.body
    /\ Len(resp.body.data) > 0

\* What a request yields when its dependency and handler run against the
\* table with no cache in between
Direct(bs, nid, t, req) ==
    CASE req.op \in ReadOps -> ReadHandler(bs, req)
      [] req.op = "patch_book" ->
            get_current_user(req.current_user, << >>, bs,
                validate(ValidBookUpdate(req.values), << >>, bs,
                    patch_book(bs, t, req.username, req.id, req.values,
                               req.current_user)))
      [] req.op = "erase_book" ->
            get_current_user(req.current_user, << >>, bs,
                erase_book(bs, t, req.username, req.id, req.current_user))
      [] req.op = "erase_db_book" ->
            get_current_superuser(req.current_user, << >>, bs,
                erase_db_book(bs, req.username, req.id))

LiveRows(bs) == {r \in Rows(bs) : ~r.is_deleted}

\* C10: run against the table, no read returns a soft-deleted row: the
\* public list holds only live rows and counts the live rows of every
\* owner, the public single read succeeds exactly for the live rows, the
\* owner-path reads return live rows only; and the existence check of the
\* hard delete still finds a soft-deleted row of a live owner.
C10_ReadsExcludeDeleted ==
    /\ \A page \in Pages, items_per_page \in PageSizes :
          LET body == read_all_books(books, page, items_per_page).body
          IN  /\ \A i \in 1..Len(body.data) : body.data[i] \in LiveRows(books)
              /\ body.total_count = Cardinality(LiveRows(books))
    /\ \A id \in BookIds :
          (read_public_book(books, id).status = 200)
              <=> (id \in DOMAIN books /\ ~books[id].is_deleted)
    /\ \A username \in Usernames :
          /\ \A page \in Pages, items_per_page \in PageSizes :
                LET h == read_books(books, username, page, items_per_page)
                IN  h.status = 200 =>
                        \A i \in 1..Len(h.body.data) : h.body.data[i] \in LiveRows(books)
          /\ \A id \in BookIds :
                read_book(books, username, id).status = 200
                    => (id \in DOMAIN books /\ ~books[id].is_deleted)
    /\ \A r \in Rows(books), u \in UserTable :
          (r.is_deleted /\ ~u.is_deleted /\ r.created_by_user_id = u.id)
              => erase_db_book(books, u.username, r.id).status = 200

\* C10 witness: with a soft-deleted row and a live row in the table, the
\* public list was computed by the handler
C10_Witness ==
    /\ \E r \in Rows(books) : r.is_deleted
    /\ LiveRows(books) # {}
    /\ resp.req.op = "read_all_books"
    /\ resp.source = "handler"
    /\ resp.body.total_count = Cardinality(LiveRows(books))

\* The rows a list request ranges over: the live rows, on the owner path
\* those of the named user
ListedRows(bs, req) ==
    {r \in Rows(bs) :
        /\ ~r.is_deleted
        /\ (req.op = "read_books" => r.created_by_user_id = OwnerId(req))}

\* C11: a list answered by its handler holds the rows number offset+1 to
\* offset+items_per_page of the matching rows, offset = (page-1) *
\* items_per_page, so at most items_per_page of them; the envelope echoes
\* page and items_per_page and counts all matching rows; a parameter that
\* is not given is page 1, respectively 10 items per page.
C11_Pagination ==
    (/\ resp.req.op \in {"read_all_books", "read_books"}
     /\ resp.source = "handler"
     /\ resp.status = 200)
    => LET q == resp.req.query
           page == IF q.page = None THEN 1 ELSE Val(q.page)
           items_per_page == IF q.items_per_page = None THEN 10 ELSE Val(q.items_per_page)
           offset == (page - 1) * items_per_page
           all == OrderById(ListedRows(books, resp.req))
           data == resp.body.data
           rest == Len(all) - offset
       IN  /\ page >= 1 /\ items_per_page >= 1
           /\ Len(data) <= items_per_page
           /\ Len(data) = IF rest <= 0 THEN 0
                          ELSE IF rest <= items_per_page THEN rest ELSE items_per_page
           /\ \A i \in 1..Len(data) : data[i] = all[offset + i]
           /\ resp.body.page = page
           /\ resp.body.items_per_page = items_per_page
           /\ resp.body.total_count = Len(all)

\* C11 witness: page 2 of the public list at one item per page, with two
\* live books, holds the second book
C11_Witness ==
    /\ resp.req.op = "read_all_books"
    /\ resp.req.query = [page |-> Some(2), items_per_page |-> Some(1)]
    /\ resp.source = "handler"
    /\ resp.body.total_count = 2
    /\ Len(resp.body.data) = 1
    /\ resp.body.data[1].id = 2

\* The live user a path names, as a set (empty when there is none)
NamedUsers(username) == {u \in UserTable : u.username = username /\ ~u.is_deleted}

\* C12: the hard delete answers 403 to an authenticated caller who is not
\* a superuser; for a superuser, owner or not, it answers 404 when no live
\* user has the name or no stored row with the id belongs to that user, and
\* otherwise removes exactly that row, soft-deleted or not.  Every refusal
\* leaves the table as it was.
C12_HardDelete ==
    [][ LET req == resp'.req
        IN  (req.op = "erase_db_book" /\ req.current_user # None)
            => IF ~Val(req.current_user).is_superuser
               THEN resp'.status = 403 /\ books' = books
               ELSE IF \E u \in NamedUsers(req.username) :
                          /\ req.id \in DOMAIN books
                          /\ books[req.id].created_by_user_id = u.id
               THEN /\ resp'.status = 200
                    /\ DOMAIN books' = (DOMAIN books) \ {req.id}
                    /\ \A i \in DOMAIN books' : books'[i] = books[i]
               ELSE resp'.status = 404 /\ books' = books
      ]_vars

\* C12 witness: the superuser bob, who owns no book, has removed a book of
\* alice for good
C12_Witness ==
    /\ resp.req.op = "erase_db_book"
    /\ resp.req.username = "alice"
    /\ resp.req.current_user # None
    /\ Val(resp.req.current_user).username = "bob"
    /\ resp.status = 200
    /\ resp.req.id \notin DOMAIN books
    /\ next_id > resp.req.id

\* The rate limits that refer to a tier
Referencing(rls, tier_id) == {j \in DOMAIN rls : rls[j].tier_id = tier_id}

\* C13: crud_tiers.delete of a tier that a stored rate limit refers to
\* fails with IntegrityError, and the tier table and the rate limit table
\* are afterwards what they were before.
C13_TierDeleteRestricted ==
    [][ (/\ db_call'.call = "tiers.delete"
         /\ Val(db_call'.id) \in DOMAIN tiers
         /\ Referencing(rate_limits, Val(db_call'.id)) # {})
        => /\ db_call'.error = "IntegrityError"
           /\ tiers' = tiers
           /\ rate_limits' = rate_limits
      ]_vars

\* C13 witness: the delete of a stored tier with a referring rate limit has
\* failed
C13_Witness ==
    /\ db_call.call = "tiers.delete"
    /\ db_call.error = "IntegrityError"
    /\ Val(db_call.id) \in DOMAIN tiers
    /\ Referencing(rate_limits, Val(db_call.id)) # {}

\* No two rows of a table agree on a column
UniqueColumn(rows, field) ==
    \A i, j \in DOMAIN rows : (i # j) => rows[i][field] # rows[j][field]

UniqueKeys ==
    /\ \A i, j \in DOMAIN books :
          (i # j /\ books[i].isbn # None) => books[i].isbn # books[j].isbn
    /\ UniqueColumn(tiers, "name")
    /\ UniqueColumn(rate_limits, "name")
    /\ UniqueColumn(users, "username")
    /\ UniqueColumn(users, "email")

\* Another row of the table already holds the value the call carries in
\* the column
Collides(rows, call, field) ==
    /\ field \in DOMAIN call.object
    /\ \E j \in DOMAIN rows :
          /\ rows[j][field] = call.object[field]
          /\ (call.id # None => j # Val(call.id))

\* The call is a create, or an update of a stored row, that carries a
\* value another row holds in a unique column
WouldBreakUnique(call) ==
    CASE call.call = "books.create" ->
            call.object.isbn # None /\ Collides(books, call, "isbn")
      [] call.call = "books.update" ->
            /\ Val(call.id) \in DOMAIN books
            /\ Collides(books, call, "isbn")
            /\ call.object["isbn"] # None
      [] call.call = "tiers.create" -> Collides(tiers, call, "name")
      [] call.call = "tiers.update" ->
            Val(call.id) \in DOMAIN tiers /\ Collides(tiers, call, "name")
      [] call.call = "rate_limits.create" -> Collides(rate_limits, call, "name")
      [] call.call = "rate_limits.update" ->
            Val(call.id) \in DOMAIN rate_limits /\ Collides(rate_limits, call, "name")
      [] call.call = "users.create" ->
            Collides(users, call, "username") \/ Collides(users, call, "email")
      [] OTHER -> FALSE

C15_NoUnhandledError ==
    resp.req.op \in (WriteOps \cup ReadOps)
        => resp.status \in {200, 201, 401, 403, 404, 409, 422}

UpdateCalls == {"books.update", "tiers.update", "rate_limits.update", "users.update"}

\* The table an update call writes, out of the four given
TableOf(call, bs, ts, rls, us) ==
    CASE call.call = "books.update" -> bs
      [] call.call = "tiers.update" -> ts
      [] call.call = "rate_limits.update" -> rls
      [] call.call = "users.update" -> us

\* The id of the row an update call names (users are named by username)
TargetOf(call, rows) ==
    IF call.call = "users.update"
    THEN CHOOSE j \in DOMAIN rows : rows[j].username = Val(call.id)
    ELSE Val(call.id)

\* A successful update changed, in the row it names, the columns it set to
\* the values it carries and no column outside `exempt` besides; every
\* other row of the table and every other table is as it was
UpdateIsPartial(exempt) ==
    (db_call'.call \in UpdateCalls /\ db_call'.error = "")
        => LET call == db_call'
               before == TableOf(call, books, tiers, rate_limits, users)
               after == TableOf(call, books', tiers', rate_limits', users')
               id == TargetOf(call, before)
           IN  /\ DOMAIN after = DOMAIN before
               /\ DOMAIN after[id] = DOMAIN before[id]
               /\ \A f \in DOMAIN call.object : after[id][f] = call.object[f]
               /\ \A f \in (DOMAIN before[id]) \ (DOMAIN call.object \cup exempt) :
                     after[id][f] = before[id][f]
               /\ \A j \in (DOMAIN before) \ {id} : after[j] = before[j]
               /\ \A tbl \in UpdateCalls \ {call.call} :
                     TableOf([call |-> tbl], books', tiers', rate_limits', users')
                         = TableOf([call |-> tbl], books, tiers, rate_limits, users)

\* C16 as stated: after a successful update exactly the columns that were
\* provided have the new values, and every other column of the row
\* (created_at included) and every other row is unchanged.
C16_PartialUpdate_AsStated == [][UpdateIsPartial({})]_vars

\* C16, amended: after a successful update the columns that were provided
\* have the new values and updated_at has the time of the update; every
\* other column of the row (created_at included) and every other row is
\* unchanged.
C16_PartialUpdate ==
    /\ [][UpdateIsPartial({"updated_at"})]_vars
    /\ [][ (db_call'.call \in UpdateCalls /\ db_call'.error = "")
            => LET after == TableOf(db_call', books', tiers', rate_limits', users')
                   id == TargetOf(db_call', after)
               IN  after[id]["updated_at"] = Some(now)
         ]_vars

\* C16 witness: an update of the limit alone of a stored rate limit has
\* succeeded; the row keeps its name, path, period and created_at
C16_Witness ==
    /\ db_call.call = "rate_limits.update"
    /\ db_call.error = ""
    /\ DOMAIN db_call.object = {"limit"}
    /\ rate_limits[Val(db_call.id)].limit = 999
    /\ rate_limits[Val(db_call.id)].name \in RateLimitNames
    /\ rate_limits[Val(db_call.id)].created_at < now

\* C17: a request without credentials to a mutating book route is answered
\* 401 with a detail, whatever user and book the path names and whether or
\* not the body is valid, and leaves the table and the cache as they were.
C17_Unauthenticated401 ==
    [][ (resp'.req.op \in WriteOps /\ resp'.req.current_user = None)
        => /\ resp'.status = 401
           /\ "detail" \in DOMAIN resp'.body
           /\ books' = books
           /\ cache' = cache
      ]_vars

\* C17 witness: a POST without credentials, with a body the schema
\* rejects, for a user that does not exist, while the cache holds an entry,
\* was answered 401
C17_Witness ==
    /\ resp.req.op = "write_book"
    /\ resp.req.current_user = None
    /\ ~ValidBookCreate(resp.req.book)
    /\ crud_users_get(resp.req.username) = None
    /\ resp.status = 401
    /\ DOMAIN cache # {}

\* The key of a direct call matches no stored row
MatchesNoRow(call) ==
    CASE call.call \in {"books.get", "books.update", "books.delete"} ->
            Val(call.id) \notin DOMAIN books
      [] call.call \in {"tiers.get", "tiers.update", "tiers.delete"} ->
            Val(call.id) \notin DOMAIN tiers
      [] call.call \in {"rate_limits.get", "rate_limits.update", "rate_limits.delete"} ->
            Val(call.id) \notin DOMAIN rate_limits
      [] call.call \in {"users.update", "users.delete"} ->
            \A j \in DOMAIN users : users[j].username # Val(call.id)
      [] OTHER -> FALSE

GetCalls == {"books.get", "tiers.get", "rate_limits.get"}

\* C18: an update or a delete whose key matches no row raises
\* NoResultFound, a get whose key matches no row returns None without an
\* error, and in both cases every table is as it was.
C18_NoRowMatched ==
    [][ MatchesNoRow(db_call')
        => /\ IF db_call'.call \in GetCalls
              THEN db_call'.error = "" /\ db_call'.returned = None
              ELSE db_call'.error = "NoResultFound"
           /\ <<books, tiers, rate_limits, users>>' = <<books, tiers, rate_limits, users>>
      ]_vars

\* C18 witness: the delete of a tier id that is not stored, while another
\* tier is, has raised NoResultFound
C18_Witness ==
    /\ db_call.call = "tiers.delete"
    /\ db_call.error = "NoResultFound"
    /\ Val(db_call.id) \notin DOMAIN tiers
    /\ DOMAIN tiers # {}

C20_DryRunCreatesNothing ==
    (importer.phase # "idle" /\ importer.args.dry_run) =>
        /\ importer.posted = 0
        /\ importer.stats.created_books = 0

\* C21 witness: a stored tier was deleted and its row is gone
C21_Witness ==
    /\ db_call.call = "tiers.delete"
    /\ db_call.error = ""
    /\ crud_get(tiers, Val(db_call.id)) = None

\* The row a get by the key of the last call returns
GetAfter(call) ==
    CASE call.call = "tiers.delete" -> crud_get(tiers, Val(call.id))
      [] call.call = "rate_limits.delete" -> crud_get(rate_limits, Val(call.id))
      [] call.call = "books.delete" -> crud_books_get(books, call.id, None, None)
      [] call.call = "users.delete" ->
            LET m == {j \in DOMAIN users : users[j].username = Val(call.id)}
            IN  IF m = {} THEN None ELSE Some(users[CHOOSE j \in m : TRUE])

\* C21: after a successful delete of a tier or a rate limit, get by that
\* id returns None; after a successful delete of a book or a user, get by
\* the same key still returns the row, with is_deleted set and deleted_at
\* not null.
C21_HardAndSoftDelete ==
    (db_call.call \in {"tiers.delete", "rate_limits.delete", "books.delete", "users.delete"}
        /\ db_call.error = "")
    => IF db_call.call \in {"tiers.delete", "rate_limits.delete"}
       THEN GetAfter(db_call) = None
       ELSE /\ GetAfter(db_call) # None
            /\ Val(GetAfter(db_call)).is_deleted
            /\ Val(GetAfter(db_call)).deleted_at # None

\* C22: patch_book by the owner, with a body that passes the schema, on a
\* stored non-deleted book: with the book's own ISBN it succeeds; with an
\* ISBN that a different non-deleted book holds it answers 409 and changes
\* no row; and a patch_book that sets no ISBN never answers 409.
C22_PatchIsbnCheck ==
    [][ LET req == resp'.req
        IN  req.op = "patch_book" =>
            LET isbn == ValuesIsbn(req.values)
            IN  /\ isbn = None => resp'.status # 409
                /\ (/\ isbn # None
                    /\ req.current_user # None
                    /\ ValidBody(req)
                    /\ crud_users_get(req.username) # None
                    /\ CallerId(req) = OwnerId(req)
                    /\ TargetExists(books, req))
                   => /\ books[req.id].isbn = isbn
                         => /\ resp'.status = 200
                            /\ books'[req.id].isbn = isbn
                      /\ (\E r \in Rows(books) :
                             r.id # req.id /\ ~r.is_deleted /\ r.isbn = isbn)
                         => /\ resp'.status = 409
                            /\ books' = books
      ]_vars

\* C22 witness: the only stored book was created, patched with an ISBN and
\* patched with that same ISBN again, successfully
C22_Witness ==
    /\ resp.req.op = "patch_book"
    /\ resp.status = 200
    /\ ValuesIsbn(resp.req.values) = Some(ISBN1)
    /\ DOMAIN books = {resp.req.id}
    /\ books[resp.req.id].title = "A"
    /\ books[resp.req.id].isbn = Some(ISBN1)
    /\ books[resp.req.id].created_at = 1
    /\ books[resp.req.id].updated_at = Some(3)

\* The ISBN duplicate pre-check of a write finds a non-deleted holder
PreCheckFinds(bs, req) ==
    LET isbn == IF req.op = "write_book" THEN req.book.isbn
                ELSE IF req.op = "patch_book" THEN ValuesIsbn(req.values)
                ELSE None
    IN  /\ isbn # None
        /\ req.op = "patch_book" => bs[req.id].isbn # isbn
        /\ crud_books_exists(bs, Val(isbn), FALSE)

\* The first check of the stated order that fails, as status and detail;
\* status 0 when every check passes and the write is reached
FirstFailure(bs, req) ==
    IF req.current_user = None THEN <<401, "User not authenticated.">>
    ELSE IF crud_users_get(req.username) = None THEN <<404, "User not found">>
    ELSE IF CallerId(req) # OwnerId(req) THEN <<403, "Forbidden">>
    ELSE IF req.op \in {"patch_book", "erase_book"} /\ ~TargetExists(bs, req)
    THEN <<404, "Book not found">>
    ELSE IF PreCheckFinds(bs, req)
    THEN <<409, "Book with this ISBN already exists">>
    ELSE <<0, "">>

\* C23: write_book, patch_book and erase_book, given a body that passes the
\* schema, answer with the first failing check in the order 401, 404 (user),
\* 403, 404 (book), 409 and change nothing; the write is attempted only
\* when every check passes.
C23_CheckOrder ==
    [][ LET req == resp'.req
        IN  (req.op \in {"write_book", "patch_book", "erase_book"} /\ ValidBody(req))
            => LET first == FirstFailure(books, req)
               IN  IF first[1] # 0
                   THEN /\ resp'.status = first[1]
                        /\ resp'.body = [detail |-> first[2]]
                        /\ books' = books
                   ELSE resp'.status \notin {401, 403, 404, 409}
      ]_vars

\* C23 witness: a non-owner's PATCH of a book id that is not stored, under
\* the name of a live user who has a book, was answered 403
C23_Witness ==
    /\ resp.req.op = "patch_book"
    /\ resp.status = 403
    /\ resp.req.id \notin DOMAIN books
    /\ \E r \in Rows(books) : r.created_by_user_id = OwnerId(resp.req)

\* The files of the run that process_pdf_file has been called for
Processed(imp) == SubSeq(imp.args.directory, 1, imp.stats.total_files)

\* The content hashes of the readable PDF files among them
HashesSeen(imp) ==
    {Processed(imp)[i].content : i \in {j \in 1..Len(Processed(imp)) :
        is_pdf_file(Processed(imp)[j]) /\ Processed(imp)[j].readable}}

\* process_pdf_file has run for a readable PDF file with this hash
ProcessedPdf(h) ==
    /\ importer.phase = "scanning"
    /\ importer'.phase = "scanning"
    /\ Len(importer'.items) < Len(importer.items)
    /\ is_pdf_file(Head(importer.items))
    /\ Head(importer.items).readable
    /\ Head(importer.items).content = h

\* After the call, books_cache holds a book with this hash that the call
\* did not itself create: a book the server listed, in this call or
\* before, or a book created earlier in the run
KnownBook(h) ==
    LET created == importer'.stats.created_books - importer.stats.created_books
    IN  \E i \in 1..(Len(importer'.books_cache) - created) :
            importer'.books_cache[i].title = h

\* C24: a PDF whose content hash is that of a book the server listed or of
\* a book created earlier in the run is counted as skipped and not posted;
\* and a run creates at most one book per distinct content hash.
C24_DuplicateDetection ==
    /\ [](importer.stats.created_books <= Cardinality(HashesSeen(importer)))
    /\ [][ \A h \in Contents :
             (ProcessedPdf(h) /\ KnownBook(h))
             => /\ importer'.stats.skipped_books = importer.stats.skipped_books + 1
                /\ importer'.stats.created_books = importer.stats.created_books
                /\ importer'.posted = importer.posted
                /\ books' = books
         ]_vars

\* C24 witness: of two files with the same content, the run has created a
\* book for the first and skipped the second
C24_Witness ==
    /\ importer.stats.created_books = 1
    /\ importer.stats.skipped_books = 1
    /\ importer.stats.pdf_files = 2
    /\ Cardinality(HashesSeen(importer)) = 1

\* C25: a book created through write_book has created_by_user_id equal to
\* the id of the authenticated caller, which is the id of the user named in
\* the path; and no request changes the created_by_user_id of a stored book.
C25_OwnerFixed ==
    [][ /\ (resp'.req.op = "write_book" /\ resp'.status = 201)
           => /\ DOMAIN books' = DOMAIN books \cup {next_id}
              /\ books'[next_id].created_by_user_id = CallerId(resp'.req)
              /\ books'[next_id].created_by_user_id = OwnerId(resp'.req)
        /\ \A id \in DOMAIN books \cap DOMAIN books' :
              books'[id].created_by_user_id = books[id].created_by_user_id
      ]_vars

\* C25 witness: a PATCH by the owner that names created_by_user_id was
\* turned down, and the book is still the owner's
C25_Witness ==
    /\ resp.req.op = "patch_book"
    /\ resp.req.values = ExtraFieldBookUpdate
    /\ resp.req.current_user # None
    /\ crud_users_get(resp.req.username) # None
    /\ CallerId(resp.req) = OwnerId(resp.req)
    /\ TargetExists(books, resp.req)
    /\ resp.status = 422
    /\ books[resp.req.id].created_by_user_id = CallerId(resp.req)
    /\ CallerId(resp.req) # ExtraFieldBookUpdate["created_by_user_id"]

\* C26: after a successful create of a book under a username, a GET of
\* that user's list includes the new book on every page that covers its
\* row, whatever the cache holds.
C26_CreatedBookListed ==
    (resp.req.op = "write_book" /\ resp.status = 201) =>
        \A page \in Pages, items_per_page \in PageSizes :
            LET req == [op |-> "read_books", username |-> resp.req.username,
                        page |-> page, items_per_page |-> items_per_page]
                got == route_read_books(cache, client, books, req)
                fresh == read_books(books, resp.req.username, page, items_per_page)
            IN  resp.body.id \in DataIds(fresh.body)
                    => (got.status = 200 /\ resp.body.id \in DataIds(got.body))

\* The step suspends a request at its await instead of completing one
Suspends == \E s \in Slots : inflight[s] = NoRequest /\ inflight'[s] # NoRequest

\* C27: no completing step of write_book, patch_book or erase_book changes a
\* row that is soft-deleted, and the owner's PATCH or DELETE that completes
\* on a soft-deleted book is answered 404.
C27_DeletedBookUntouched ==
    [][ (resp'.req.op \in {"write_book", "patch_book", "erase_book"} /\ ~Suspends)
        => /\ \A id \in DOMAIN books :
                books[id].is_deleted => (id \in DOMAIN books' /\ books'[id] = books[id])
           /\ LET req == resp'.req
              IN  (/\ req.op \in {"patch_book", "erase_book"}
                   /\ req.current_user # None
                   /\ ValidBody(req)
                   /\ crud_users_get(req.username) # None
                   /\ CallerId(req) = OwnerId(req)
                   /\ req.id \in DOMAIN books
                   /\ books[req.id].is_deleted)
                  => resp'.status = 404
      ]_vars

\* The data of the pages of the public listing from a page on, up to the
\* first page whose envelope has has_more false
RECURSIVE ListingFrom(_, _, _)
ListingFrom(bs, page, items_per_page) ==
    LET body == read_all_books(bs, page, items_per_page).body
    IN  IF body.has_more THEN body.data \o ListingFrom(bs, page + 1, items_per_page)
        ELSE body.data

\* The first page whose envelope has has_more false
RECURSIVE LastPageFrom(_, _, _)
LastPageFrom(bs, page, items_per_page) ==
    IF read_all_books(bs, page, items_per_page).body.has_more
    THEN LastPageFrom(bs, page + 1, items_per_page)
    ELSE page

\* books_cache holds pages 1..n in order, each requested once
HoldsTheListing(f) ==
    /\ f.books_cache = ListingFrom(books, page_default, f.items_per_page)
    /\ f.pages = [p \in 1..LastPageFrom(books, page_default, f.items_per_page) |-> p]

Outcomes(stats) == stats.created_books + stats.skipped_books + stats.errors

\* A call of process_pdf_file has completed
ProcessedFile ==
    /\ importer.phase = "scanning"
    /\ importer'.phase = "scanning"
    /\ Len(importer'.items) < Len(importer.items)

\* Each of the three outcome counters grew by 0 or 1
GrewByAtMostOne(before, after) ==
    \A c \in {"created_books", "skipped_books", "errors"} :
        after[c] - before[c] \in {0, 1}

\* C29: the import statistics stay consistent: pdf_files = created_books +
\* skipped_books + errors; a completed call of process_pdf_file grows
\* total_files by exactly 1, and for a PDF file grows pdf_files and exactly
\* one of created_books, skipped_books and errors by 1, for another file none
C29_StatsConsistent ==
    /\ [](importer.phase # "idle" =>
            importer.stats.pdf_files = Outcomes(importer.stats))
    /\ [][ProcessedFile =>
            LET before == importer.stats
                after == importer'.stats
                pdf == IF is_pdf_file(Head(importer.items)) THEN 1 ELSE 0
            IN  /\ after.total_files = before.total_files + 1
                /\ after.pdf_files = before.pdf_files + pdf
                /\ GrewByAtMostOne(before, after)
                /\ Outcomes(after) = Outcomes(before) + pdf]_vars

C29_Witness ==
    /\ importer.phase = "done"
    /\ importer.stats.total_files = 2
    /\ importer.stats.pdf_files = 2
    /\ importer.stats.created_books = 1
    /\ importer.stats.errors = 1

\* pytest has been started
TestsStarted(r) == \E i \in DOMAIN r.steps : r.steps[i] = "pytest"

\* C30: unless --skip-cleanup is given pytest is started only after
\* cleanup_database and verify_cleanup have completed; when the cleanup
\* raises no test is run and the runner returns 1; with --skip-cleanup the
\* tests are run without any cleanup step
C30_CleanupBeforeTests ==
    /\ (TestsStarted(runner) /\ ~runner.args.skip_cleanup) =>
            runner.steps = <<"cleanup_database", "verify_cleanup", "pytest">>
    /\ runner.cleanup_success = Some(FALSE) =>
            /\ ~TestsStarted(runner)
            /\ runner.phase = "exited"
            /\ runner.returncode = Some(1)
    /\ (runner.args.skip_cleanup /\ runner.phase \in {"run_tests", "exited"}
            /\ ~runner.args.list_models /\ runner.args.models # "invalid") =>
            /\ runner.cleanup_success = None
            /\ (runner.phase = "exited" => runner.steps \in {<<"pytest">>, << >>})
            /\ (runner.steps = << >> /\ runner.phase = "exited" =>
                    runner.returncode = Some(1))

C30_Witness ==
    /\ runner.phase = "exited"
    /\ ~runner.args.skip_cleanup
    /\ runner.steps = <<"cleanup_database", "verify_cleanup", "pytest">>
    /\ runner.returncode = Some(0)
    /\ books = << >>
    /\ db_call # NoCall

====
